---- MODULE Spec2Model ----
(***************************************************************************)
(* EcoRota Angola: route generation and personalisation engine.            *)
(*                                                                         *)
(* Units.  Coordinates are in 1e-4 degrees, distances in metres (the       *)
(* haversine value of each pair of model points), recorded distances in    *)
(* hundredths of a km (round(x, 2)), fragilidade_media in hundredths       *)
(* (round(x, 2)), score in thousandths (round(x, 3)), money in AOA.        *)
(* Python indices are 0-based; a Python list L is the sequence whose       *)
(* element L[i] is at position i + 1.                                      *)
(* An argument value 0 stands for every falsy Python value (0 and None).   *)
(***************************************************************************)
EXTENDS Integers, Sequences, FiniteSets, TLC

VARIABLES
    \* GeographicCalculator.nearest_neighbor_route call
    geoCoords,      \* argument coordinates
    geoStart,       \* argument start_index
    geoOut,         \* "pending" before the call, then its outcome
    \* RouteOptimizer.generate_routes calls on one catalog object
    df,             \* the DataFrame object handed to generate_routes
    kmeans,         \* outcome of KMeans(random_state=42) on the catalog
    rng,            \* state of the shared numpy random source
    lastCall,       \* arguments, starting rng state and result of the last call
    \* _calculate_route_scores on two candidates
    candA, candB,   \* two candidates with the same distance and cost
    scored,         \* <<>> before the call, then the two scored routes
    \* EcoTurismoSystem, its DataProcessor, and the MLRecommendationEngine
    sysDf,          \* EcoTurismoSystem.df
    procDf,         \* DataProcessor.df
    recommended_routes, \* EcoTurismoSystem.recommended_routes
    mlModel,        \* the engine's df, rating_model and clustering_model
    sysLast,        \* kind, arguments and outcome of the last call
    \* single calls of pure functions: arguments and outcome
    distCall,       \* a distance computation of GeographicCalculator
    collabCall,     \* sistema_recomendacao_colaborativo
    selCall,        \* RouteOptimizer._select_best_routes
    \* the HTTP service
    apiSystem,      \* the module global ecoturismo_system
    apiClient,      \* per client: its last generate response and last export
    \* the label encoders of one training
    encCall,        \* the catalog, the visited sites and the fitted encoders
    \* the model artifacts of the engine of the running process and on disk
    artifacts,      \* rating_model, clustering_model, scaler, label_encoders
    prefixFiles,    \* the four files of salvar_modelos / carregar_modelos
    modelFiles,     \* the four files of save_models / load_models
    runs,           \* the number of trainings started so far
    engLast         \* the last operation on the artifacts and what it returned

geoVars == <<geoCoords, geoStart, geoOut>>
optVars == <<df, kmeans, rng, lastCall>>
scoreVars == <<candA, candB, scored>>
sysVars == <<sysDf, procDf, recommended_routes, mlModel, sysLast>>
callVars == <<distCall, collabCall, selCall>>
apiVars == <<apiSystem, apiClient>>
engVars == <<encCall, artifacts, prefixFiles, modelFiles, runs, engLast>>
vars == <<geoCoords, geoStart, geoOut, df, kmeans, rng, lastCall,
          candA, candB, scored,
          sysDf, procDf, recommended_routes, mlModel, sysLast,
          distCall, collabCall, selCall, apiSystem, apiClient,
          encCall, artifacts, prefixFiles, modelFiles, runs, engLast>>

----------------------------------------------------------------------------
(* Generic helpers                                                         *)

Range(s) == {s[i] : i \in 1..Len(s)}

Min2(a, b) == IF a <= b THEN a ELSE b

RECURSIVE SumSeq(_)
SumSeq(s) == IF s = <<>> THEN 0 ELSE Head(s) + SumSeq(Tail(s))

\* Python round(): nearest integer of num/den (den > 0, num >= 0), an exact
\* half going to the even neighbour.
RoundHalfEven(num, den) ==
    LET q == num \div den
        r == num % den
    IN  IF 2 * r < den THEN q
        ELSE IF 2 * r > den THEN q + 1
        ELSE IF q % 2 = 0 THEN q ELSE q + 1

----------------------------------------------------------------------------
(* Geography: src/src/utils/geographic.py                                  *)

\* A coordinate pair; num = FALSE when the latitude cell holds text instead of
\* a number (lat is then the number the text spells).
Kissama     == [lat |-> -87500,  lon |-> 132500, num |-> TRUE]
Kalandula   == [lat |-> -90833,  lon |-> 160167, num |-> TRUE]
Iona        == [lat |-> -167500, lon |-> 122500, num |-> TRUE]
Chimalavera == [lat |-> -125000, lon |-> 135000, num |-> TRUE]
Tundavala   == [lat |-> -148167, lon |-> 133833, num |-> TRUE]
Maiombe     == [lat |-> -47500,  lon |-> 125000, num |-> TRUE]
OffGlobe    == [lat |-> 950000,  lon |-> 135000, num |-> TRUE]
\* config.data.luanda_coords, the reference point
Luanda      == [lat |-> -88390,  lon |-> 132894, num |-> TRUE]
TextLat     == [lat |-> -125000, lon |-> 135000, num |-> FALSE]

\* _validate_coordinates: returns normally only for numbers in range (the
\* comparison of a text latitude raises TypeError, out of range ValueError)
ValidateCoordinates(c) ==
    /\ c.num
    /\ -900000 <= c.lat /\ c.lat <= 900000
    /\ -1800000 <= c.lon /\ c.lon <= 1800000

\* haversine(coord1, coord2) in metres for the model's points
Haversine(c1, c2) ==
    IF c1 = c2 THEN 0
    ELSE LET pair == {c1, c2} IN
         CASE pair = {Luanda, Kissama}        -> 10802
           [] pair = {Luanda, Kalandula}      -> 300789
           [] pair = {Luanda, Iona}           -> 886842
           [] pair = {Luanda, Chimalavera}    -> 407735
           [] pair = {Luanda, Tundavala}      -> 664769
           [] pair = {Luanda, Maiombe}        -> 462952
           [] pair = {Kissama, Kalandula}     -> 306176
           [] pair = {Kissama, Iona}          -> 896135
           [] pair = {Kissama, Chimalavera}   -> 417875
           [] pair = {Kissama, Tundavala}     -> 674743
           [] pair = {Kissama, Maiombe}       -> 452422
           [] pair = {Kalandula, Iona}        -> 945052
           [] pair = {Kalandula, Chimalavera} -> 468915
           [] pair = {Kalandula, Tundavala}   -> 698877
           [] pair = {Kalandula, Maiombe}     -> 618700
           [] pair = {Iona, Chimalavera}      -> 491334
           [] pair = {Iona, Tundavala}        -> 246814
           [] pair = {Iona, Maiombe}          -> 1334619
           [] pair = {Chimalavera, Tundavala} -> 257914
           [] pair = {Chimalavera, Maiombe}   -> 868735
           [] pair = {Tundavala, Maiombe}     -> 1123533
           [] OTHER -> 0

\* calculate_distance: validation first, then the haversine value
CalculateDistance(c1, c2) ==
    IF ValidateCoordinates(c1) /\ ValidateCoordinates(c2)
    THEN [ok |-> TRUE, d |-> Haversine(c1, c2)]
    ELSE [ok |-> FALSE, d |-> 0]

\* float('inf')
Inf == 1000000000

\* a variant of the inner loop in which an equal distance also replaces
\* the running minimum
RECURSIVE ScanNearestOrEqual(_, _, _, _, _, _)
ScanNearestOrEqual(coordinates, visited, current, i, min_distance, next_index) ==
    IF i >= Len(coordinates)
    THEN [ok |-> TRUE, next |-> next_index]
    ELSE IF visited[i + 1]
         THEN ScanNearestOrEqual(coordinates, visited, current, i + 1,
                                 min_distance, next_index)
         ELSE LET dist == CalculateDistance(coordinates[current + 1],
                                            coordinates[i + 1])
              IN  IF ~dist.ok THEN [ok |-> FALSE, next |-> -1]
                  ELSE IF dist.d <= min_distance
                       THEN ScanNearestOrEqual(coordinates, visited, current,
                                               i + 1, dist.d, i)
                       ELSE ScanNearestOrEqual(coordinates, visited, current,
                                               i + 1, min_distance, next_index)

\* the inner loop "for i in range(n)" of nearest_neighbor_route, from index i
\* on, with the running min_distance and next_index
RECURSIVE ScanNearest(_, _, _, _, _, _)
ScanNearest(coordinates, visited, current, i, min_distance, next_index) ==
    IF i >= Len(coordinates)
    THEN [ok |-> TRUE, next |-> next_index]
    ELSE IF visited[i + 1]
         THEN ScanNearest(coordinates, visited, current, i + 1,
                          min_distance, next_index)
         ELSE LET dist == CalculateDistance(coordinates[current + 1],
                                            coordinates[i + 1])
              IN  IF ~dist.ok THEN [ok |-> FALSE, next |-> -1]
                  ELSE IF dist.d < min_distance
                       THEN ScanNearest(coordinates, visited, current, i + 1,
                                        dist.d, i)
                       ELSE ScanNearest(coordinates, visited, current, i + 1,
                                        min_distance, next_index)

\* the outer loop "for _ in range(n - 1)", with `left` iterations to go
RECURSIVE NearestLoop(_, _, _, _, _)
NearestLoop(coordinates, visited, route, current, left) ==
    IF left = 0 THEN [ok |-> TRUE, route |-> route]
    ELSE LET scan == ScanNearest(coordinates, visited, current, 0, Inf, -1)
         IN  IF ~scan.ok THEN [ok |-> FALSE, route |-> <<>>]
             ELSE IF scan.next # -1
                  THEN NearestLoop(coordinates,
                                   [visited EXCEPT ![scan.next + 1] = TRUE],
                                   Append(route, scan.next), scan.next, left - 1)
                  ELSE NearestLoop(coordinates, visited, route, current, left - 1)

\* an ordering that visits the points from the last one to the first
ReverseOrderRoute(coordinates, start_index) ==
    [ok |-> TRUE,
     route |-> [i \in 1..Len(coordinates) |-> Len(coordinates) - i]]

\* nearest_neighbor_route(coordinates, start_index): ok = FALSE when it raises
NearestNeighborRoute(coordinates, start_index) ==
    IF Len(coordinates) <= 1 THEN [ok |-> TRUE, route |-> <<0>>]
    ELSE IF start_index >= Len(coordinates)
         THEN [ok |-> FALSE, route |-> <<>>]
         ELSE NearestLoop(coordinates,
                          [i \in 1..Len(coordinates) |-> i = start_index + 1],
                          <<start_index>>, start_index, Len(coordinates) - 1)

\* the loop of calculate_route_distance from position i on, total_distance
\* being the sum so far
RECURSIVE RouteDistanceFrom(_, _, _, _)
RouteDistanceFrom(coordinates, route_indices, i, total_distance) ==
    IF i >= Len(route_indices) THEN [ok |-> TRUE, d |-> total_distance]
    ELSE LET hop == CalculateDistance(coordinates[route_indices[i] + 1],
                                      coordinates[route_indices[i + 1] + 1])
         IN  IF ~hop.ok THEN [ok |-> FALSE, d |-> 0]
             ELSE RouteDistanceFrom(coordinates, route_indices, i + 1,
                                    total_distance + hop.d)

\* calculate_route_distance(coordinates, route_indices): ok = FALSE when it raises
CalculateRouteDistance(coordinates, route_indices) ==
    RouteDistanceFrom(coordinates, route_indices, 1, 0)

\* calculate_distance_matrix(coordinates): calculate_distance on every pair
\* i < j; ok = FALSE when one of them raises
CalculateDistanceMatrix(coordinates) ==
    LET n == Len(coordinates)
        pairs == {<<i, j>> \in (1..n) \X (1..n) : i < j}
    IN  IF \E q \in pairs : ~CalculateDistance(coordinates[q[1]],
                                                coordinates[q[2]]).ok
        THEN [ok |-> FALSE, m |-> <<>>]
        ELSE [ok |-> TRUE,
              m |-> [i \in 1..n |-> [j \in 1..n |->
                        IF i = j THEN 0
                        ELSE Haversine(coordinates[i], coordinates[j])]]]

----------------------------------------------------------------------------
(* Site catalog                                                            *)

\* config.data.required_columns
RequiredColumns ==
    {"nome", "provincia", "latitude", "longitude", "fragilidade",
     "capacidade_diaria", "taxa_aoa", "tipo_ecosistema", "descricao"}

\* The rows the model's catalogs are made of.  The first three are the rows
\* of the optimizer's self-test; the last one has a latitude cell holding text.
SiteKissama ==
    [nome |-> "Kissama", provincia |-> "Luanda", coord |-> Kissama,
     fragilidade |-> 3, capacidade_diaria |-> 150, taxa_aoa |-> 25000,
     tipo_ecosistema |-> "savana"]
SiteKalandula ==
    [nome |-> "Kalandula", provincia |-> "Malange", coord |-> Kalandula,
     fragilidade |-> 2, capacidade_diaria |-> 200, taxa_aoa |-> 15000,
     tipo_ecosistema |-> "floresta"]
SiteIona ==
    [nome |-> "Iona", provincia |-> "Namibe", coord |-> Iona,
     fragilidade |-> 4, capacidade_diaria |-> 100, taxa_aoa |-> 30000,
     tipo_ecosistema |-> "deserto"]
SiteChimalavera ==
    [nome |-> "Chimalavera", provincia |-> "Benguela", coord |-> Chimalavera,
     fragilidade |-> 5, capacidade_diaria |-> 80, taxa_aoa |-> 8000,
     tipo_ecosistema |-> "savana"]
SiteMussulo ==
    [nome |-> "Mussulo", provincia |-> "Luanda", coord |-> TextLat,
     fragilidade |-> 1, capacidade_diaria |-> 120, taxa_aoa |-> 5000,
     tipo_ecosistema |-> "costa"]

SiteTundavala ==
    [nome |-> "Tundavala", provincia |-> "Huila", coord |-> Tundavala,
     fragilidade |-> 3, capacidade_diaria |-> 180, taxa_aoa |-> 12000,
     tipo_ecosistema |-> "montanha"]
SiteMaiombe ==
    [nome |-> "Maiombe", provincia |-> "Cabinda", coord |-> Maiombe,
     fragilidade |-> 5, capacidade_diaria |-> 60, taxa_aoa |-> 20000,
     tipo_ecosistema |-> "floresta"]

SitePool ==
    <<SiteKissama, SiteKalandula, SiteIona, SiteMussulo, SiteChimalavera>>

\* the sub-sequence of s at the positions in idx, in the order of s
RECURSIVE SubSeqAt(_, _, _)
SubSeqAt(s, idx, i) ==
    IF i > Len(s) THEN <<>>
    ELSE IF i \in idx THEN <<s[i]>> \o SubSeqAt(s, idx, i + 1)
         ELSE SubSeqAt(s, idx, i + 1)

\* bound: the largest catalog
MaxSites == 4

\* the catalogs handed to generate_routes: the selections of at most MaxSites
\* rows of the pool
Catalogs ==
    {SubSeqAt(SitePool, idx, 1) :
        idx \in {x \in SUBSET (1..Len(SitePool)) : Cardinality(x) <= MaxSites}}

----------------------------------------------------------------------------
(* Route optimizer: src/src/core/route_optimizer.py                        *)

\* config.route defaults and config.ml.clustering_params['n_clusters']
DefaultMaxBudget == 20000
DefaultMaxLocations == 6
DefaultNumRoutes == 5
DefaultMaxFragility == 4
ConfiguredClusters == 6

\* Python's "x or default": a falsy argument is replaced by the default
OrDefault(x, default) == IF x = 0 THEN default ELSE x

\* n_clusters of _create_geographic_clusters for a catalog of n rows
NClusters(n) == Min2(Min2(ConfiguredClusters, n \div 2), n)

\* a feature list made of every non-text column of the catalog object
ClusterFeaturesAll(columns) ==
    columns \ {"nome", "provincia", "tipo_ecosistema", "descricao"}

\* the feature columns handed to KMeans: the five fixed ones and the derived
\* scores when present
ClusterFeatures(columns) ==
    {"latitude", "longitude", "fragilidade", "capacidade_diaria", "taxa_aoa"}
        \cup (columns \cap {"sustentabilidade_score", "atratividade_score"})

\* KMeans(n_clusters, random_state=42).fit_predict on those columns: a fixed
\* function of the matrix, so one outcome per catalog: it either raises or
\* labels each row.  `oracle` is the outcome for the configured columns; a
\* matrix with another column in it is another matrix, and the model takes
\* its labels to be the configured ones in reverse row order.
KMeansFitPredict(oracle, features) ==
    IF "cluster" \in features
    THEN [raises |-> oracle.raises,
          labels |-> [i \in 1..Len(oracle.labels) |->
                         oracle.labels[Len(oracle.labels) + 1 - i]]]
    ELSE oracle

\* _create_geographic_clusters: the catalog object with its cluster column
\* (over)written; the object is modified in place and returned
CreateGeographicClusters(d, oracle) ==
    LET n == Len(d.rows)
        zeros == [i \in 1..n |-> 0]
        fit == KMeansFitPredict(oracle, ClusterFeatures(d.columns))
    IN  [rows |-> d.rows,
         columns |-> d.columns \cup {"cluster"},
         cluster |-> IF NClusters(n) < 2 THEN zeros
                     ELSE IF fit.raises THEN zeros
                     ELSE fit.labels]

\* DataFrame.to_dict('records'): one dict per row with every column as a key
ToRecord(row, columns, cluster_id) ==
    [campos |-> columns, nome |-> row.nome, provincia |-> row.provincia,
     coord |-> row.coord, fragilidade |-> row.fragilidade,
     taxa_aoa |-> row.taxa_aoa, tipo_ecosistema |-> row.tipo_ecosistema,
     cluster |-> cluster_id]

Coordinates(locs) == [i \in 1..Len(locs) |-> locs[i].coord]
Prices(locs) == [i \in 1..Len(locs) |-> locs[i].taxa_aoa]
Fragilities(locs) == [i \in 1..Len(locs) |-> locs[i].fragilidade]

\* round(total / n, 2) in hundredths: the rounded mean of n values.  A tie
\* is a multiple of 1/8 for every n below 40, which a double holds exactly.
MeanRounded(total, n) == RoundHalfEven(100 * total, n)

\* round(np.mean(fragilities), 2), in hundredths
FragilidadeMedia(locs) == MeanRounded(SumSeq(Fragilities(locs)), Len(locs))

\* a budget test that never rejects
OverBudgetNever(total_cost, max_budget) == FALSE

\* the budget test of _create_route_from_locations
OverBudget(total_cost, max_budget) == total_cost > max_budget

\* the route dict _create_route_from_locations builds from the ordered sites
\* and their measured distance: <<>> for None (the measuring raised)
RouteRecord(optimized_locations, total_cost, dist) ==
    IF ~dist.ok THEN <<>>
    ELSE << [nome |-> <<optimized_locations[1].cluster + 1,
                        Len(optimized_locations)>>,
             locais |-> optimized_locations,
             num_locais |-> Len(optimized_locations),
             distancia_total_km |-> RoundHalfEven(dist.d, 10),
             custo_total_aoa |-> total_cost,
             fragilidade_media |-> FragilidadeMedia(optimized_locations),
             provincias |-> {optimized_locations[i].provincia :
                                i \in 1..Len(optimized_locations)},
             tipos_ecosistema |-> {optimized_locations[i].tipo_ecosistema :
                                      i \in 1..Len(optimized_locations)},
             score |-> -1] >>

\* optimized_locations = [locations_list[i] for i in route_indices] and the
\* distance along them
MeasuredRoute(optimized_locations, total_cost) ==
    RouteRecord(optimized_locations, total_cost,
                CalculateRouteDistance(
                    Coordinates(optimized_locations),
                    [i \in 1..Len(optimized_locations) |-> i - 1]))

\* the part of _create_route_from_locations after the budget test, nn being
\* the outcome of nearest_neighbor_route: <<>> for None (an exception)
OrderedRoute(locations_list, total_cost, nn) ==
    IF ~nn.ok THEN <<>>
    ELSE IF \E i \in 1..Len(nn.route) : nn.route[i] + 1 > Len(locations_list)
         THEN <<>>
         ELSE MeasuredRoute([i \in 1..Len(nn.route) |->
                                locations_list[nn.route[i] + 1]],
                            total_cost)

\* _create_route_from_locations: <<>> for None, else the one route
CreateRouteFromLocations(locations_list, max_budget) ==
    IF OverBudget(SumSeq(Prices(locations_list)), max_budget) THEN <<>>
    ELSE OrderedRoute(locations_list, SumSeq(Prices(locations_list)),
                      NearestNeighborRoute(Coordinates(locations_list), 0))

\* bound: the number of states of the shared random source
RngStates == 2

\* np.random.randint(1000) in state s: the value drawn and the state after
RandInt(s) == [value |-> (s * 397 + 11) % 1000, next |-> (s + 1) % RngStates]

RemoveAt(s, k) == [i \in 1..(Len(s) - 1) |-> IF i < k THEN s[i] ELSE s[i + 1]]

\* DataFrame.sample(n, random_state=seed): n rows drawn without replacement,
\* in the order drawn, a fixed function of the seed
RECURSIVE Sample(_, _, _)
Sample(rows, n, seed) ==
    IF n = 0 \/ rows = <<>> THEN <<>>
    ELSE LET k == (seed % Len(rows)) + 1
         IN  <<rows[k]>> \o Sample(RemoveAt(rows, k), n - 1, seed \div Len(rows))

\* the "for _ in range(min(3, cluster_size // 2))" loop of
\* _generate_cluster_routes with `left` attempts to go, `routes` being the
\* list so far and s the state of the random source
RECURSIVE SampleAttempts(_, _, _, _, _, _)
SampleAttempts(cluster_records, max_locations, max_budget, s, left, routes) ==
    IF left = 0 THEN [routes |-> routes, rng |-> s]
    ELSE SampleAttempts(
             cluster_records, max_locations, max_budget, RandInt(s).next,
             left - 1,
             routes \o CreateRouteFromLocations(
                           Sample(cluster_records,
                                  Min2(max_locations, Len(cluster_records)),
                                  RandInt(s).value),
                           max_budget))

\* _generate_cluster_routes
GenerateClusterRoutes(cluster_records, max_locations, max_budget, s) ==
    IF Len(cluster_records) <= max_locations
    THEN [routes |-> CreateRouteFromLocations(cluster_records, max_budget),
          rng |-> s]
    ELSE SampleAttempts(cluster_records, max_locations, max_budget, s,
                        Min2(3, Len(cluster_records) \div 2), <<>>)

\* config.route.score_weights, in hundredths
WeightFragilidade == 45
WeightDistancia == 35
WeightCusto == 20

\* a score kept to two decimals only
RouteScoreTwoDecimals(route) ==
    10 * RoundHalfEven(1000 * WeightFragilidade * route.fragilidade_media
                         + WeightDistancia * route.distancia_total_km
                         + WeightCusto * route.custo_total_aoa,
                       100000)

\* the score of _calculate_route_scores, round(score, 3) in thousandths
RouteScore(route) ==
    RoundHalfEven(1000 * WeightFragilidade * route.fragilidade_media
                    + WeightDistancia * route.distancia_total_km
                    + WeightCusto * route.custo_total_aoa,
                  10000)

\* _calculate_route_scores
CalculateRouteScores(routes) ==
    [i \in 1..Len(routes) |-> [routes[i] EXCEPT !.score = RouteScore(routes[i])]]

\* validate_route_data
RequiredRouteFields ==
    {"nome", "provincia", "latitude", "longitude", "fragilidade", "taxa_aoa"}
ValidateRouteData(route_data) ==
    /\ route_data # <<>>
    /\ \A i \in 1..Len(route_data) :
          /\ RequiredRouteFields \subseteq route_data[i].campos
          /\ route_data[i].coord.num

\* sorted(routes, key=score): stable, ascending
RECURSIVE InsertByScore(_, _)
InsertByScore(sorted_routes, r) ==
    IF sorted_routes = <<>> THEN <<r>>
    ELSE IF r.score < Head(sorted_routes).score THEN <<r>> \o sorted_routes
         ELSE <<Head(sorted_routes)>> \o InsertByScore(Tail(sorted_routes), r)

RECURSIVE SortByScore(_)
SortByScore(routes) ==
    IF routes = <<>> THEN <<>>
    ELSE InsertByScore(SortByScore(SubSeq(routes, 1, Len(routes) - 1)),
                       routes[Len(routes)])

\* the list s[:n] for n >= 0
Take(s, n) == SubSeq(s, 1, Min2(n, Len(s)))

\* _select_best_routes: sort, keep the first num_routes, then drop the ones
\* that fail validate_route_data
SelectBestRoutes(scored_routes, num_routes) ==
    IF scored_routes = <<>> THEN <<>>
    ELSE LET best_routes == Take(SortByScore(scored_routes), num_routes)
             Valid(r) == ValidateRouteData(r.locais)
         IN  SelectSeq(best_routes, Valid)

\* _select_best_routes called on any list of route dicts (chaves = the keys
\* a dict holds): a dict without 'score' makes sorted() raise KeyError, a
\* selected dict without 'locais' makes the validation loop raise, and the
\* except branch returns scored_routes[:num_routes] as it is
SelectBestRoutesRaises(scored_routes, num_routes) ==
    \/ \E i \in 1..Len(scored_routes) : "score" \notin scored_routes[i].chaves
    \/ \E r \in Range(Take(SortByScore(scored_routes), num_routes)) :
          "locais" \notin r.chaves

SelectBestRoutesOf(scored_routes, num_routes) ==
    IF scored_routes = <<>> THEN <<>>
    ELSE IF SelectBestRoutesRaises(scored_routes, num_routes)
    THEN Take(scored_routes, num_routes)
    ELSE SelectBestRoutes(scored_routes, num_routes)

\* df_clustered['cluster'].unique(): the labels in order of first appearance
RECURSIVE UniqueInOrder(_)
UniqueInOrder(labels) ==
    IF labels = <<>> THEN <<>>
    ELSE LET front == UniqueInOrder(SubSeq(labels, 1, Len(labels) - 1))
             last == labels[Len(labels)]
         IN  IF last \in Range(front) THEN front ELSE Append(front, last)

\* df_clustered[df_clustered['cluster'] == cluster_id].to_dict('records')
RECURSIVE ClusterRecords(_, _, _)
ClusterRecords(d, cluster_id, i) ==
    IF i > Len(d.rows) THEN <<>>
    ELSE IF d.cluster[i] = cluster_id
         THEN <<ToRecord(d.rows[i], d.columns, cluster_id)>>
                  \o ClusterRecords(d, cluster_id, i + 1)
         ELSE ClusterRecords(d, cluster_id, i + 1)

\* all_routes.extend(cluster_routes)
ExtendRoutes(all_routes, cluster_routes) ==
    [routes |-> all_routes \o cluster_routes.routes, rng |-> cluster_routes.rng]

\* the "for cluster_id in ...unique()" loop of generate_routes from the i-th
\* cluster on, `all` being the routes so far and the state of the random source
RECURSIVE AllClusterRoutes(_, _, _, _, _, _)
AllClusterRoutes(d, ids, i, max_locations, max_budget, all) ==
    IF i > Len(ids) THEN all
    ELSE AllClusterRoutes(
             d, ids, i + 1, max_locations, max_budget,
             ExtendRoutes(all.routes,
                          GenerateClusterRoutes(ClusterRecords(d, ids[i], 1),
                                                max_locations, max_budget,
                                                all.rng)))

\* an empty catalog answered with an exception
EmptyCatalogRaises(d, s) ==
    [routes |-> <<>>, raised |-> TRUE, df |-> d, rng |-> s, pool |-> <<>>]

\* the "if df.empty: return []" exit of generate_routes
EmptyCatalogResult(d, s) ==
    [routes |-> <<>>, raised |-> FALSE, df |-> d, rng |-> s, pool |-> <<>>]

\* steps 3 and 4 of generate_routes: the candidates scored, the best selected
ScoreAndSelect(df_clustered, all, num_routes) ==
    [routes |-> SelectBestRoutes(CalculateRouteScores(all.routes), num_routes),
     raised |-> FALSE,
     df |-> df_clustered, rng |-> all.rng,
     pool |-> CalculateRouteScores(all.routes)]

\* steps 2 to 4 of generate_routes on the clustered catalog
RoutesOfClusters(df_clustered, s, max_locations, num_routes, max_budget) ==
    ScoreAndSelect(df_clustered,
                   AllClusterRoutes(df_clustered,
                                    UniqueInOrder(df_clustered.cluster), 1,
                                    max_locations, max_budget,
                                    [routes |-> <<>>, rng |-> s]),
                   num_routes)

\* generate_routes: the list returned (or raised), the catalog object and the
\* random source after the call, and the scored pool the list was selected from
GenerateRoutes(d, oracle, s, max_locations_arg, num_routes_arg, max_budget_arg) ==
    IF d.rows = <<>>
    THEN EmptyCatalogResult(d, s)
    ELSE RoutesOfClusters(CreateGeographicClusters(d, oracle), s,
                          OrDefault(max_locations_arg, DefaultMaxLocations),
                          OrDefault(num_routes_arg, DefaultNumRoutes),
                          OrDefault(max_budget_arg, DefaultMaxBudget))


----------------------------------------------------------------------------
(* Data processor and validators: src/src/core/data_processor.py,          *)
(* src/src/utils/validators.py                                             *)

\* config.data.min_fragilidade and max_fragilidade
MinFragilidade == 1
MaxFragilidade == 5

\* config.ml.feature_weights, in tenths (popularidade is not used)
WeightSustentabilidade == 3
WeightCapacidade == 2
WeightAcessibilidade == 2
WeightCustoRelativo == 1

\* the columns _create_derived_features adds
DerivedColumns ==
    {"distancia_luanda", "sustentabilidade_score", "capacidade_relativa",
     "custo_relativo", "acessibilidade_score", "atratividade_score"}

\* a DataFrame attribute: None, or the rows and columns of the object
NoneDf == [isNone |-> TRUE, rows |-> <<>>, columns |-> {}]
DataFrame(rows, columns) == [isNone |-> FALSE, rows |-> rows, columns |-> columns]

\* Series.max() of a non-empty column
RECURSIVE MaxOf(_)
MaxOf(s) ==
    IF Len(s) = 1 THEN s[1]
    ELSE IF Head(s) >= MaxOf(Tail(s)) THEN Head(s) ELSE MaxOf(Tail(s))

\* validate_dataframe_structure
ValidateDataFrameStructure(rows, columns) ==
    /\ rows # <<>>
    /\ RequiredColumns \subseteq columns

\* validate_value_ranges (a comparison with a text cell raises: False)
ValidateValueRanges(rows) ==
    \A i \in 1..Len(rows) :
        /\ rows[i].coord.num
        /\ rows[i].fragilidade >= MinFragilidade
        /\ rows[i].fragilidade <= MaxFragilidade
        /\ -900000 <= rows[i].coord.lat /\ rows[i].coord.lat <= 900000
        /\ -1800000 <= rows[i].coord.lon /\ rows[i].coord.lon <= 1800000
        /\ rows[i].capacidade_diaria > 0
        /\ rows[i].taxa_aoa > 0

\* validate_data_types: the numeric columns hold numbers only
ValidateDataTypes(rows) == \A i \in 1..Len(rows) : rows[i].coord.num

\* validate_data_content (no cell of the model's rows is null, and the
\* geographic check only warns)
ValidateDataContent(rows) ==
    ValidateValueRanges(rows) /\ ValidateDataTypes(rows)

\* distancia_luanda, in tens of metres
DistanciaLuanda(row) == CalculateDistance(Luanda, row.coord).d \div 10

\* x / max as a relative value in 1e-4
Relative(x, max) == (x * 10000) \div max

\* sustentabilidade_score
SustentabilidadeScore(row) == MaxFragilidade - row.fragilidade + 1

\* atratividade_score of row i of _create_derived_features, in 1e-5
AtratividadeScore(rows, i) ==
    WeightSustentabilidade * 10000 * SustentabilidadeScore(rows[i])
      + WeightCapacidade
          * Relative(rows[i].capacidade_diaria,
                     MaxOf([k \in 1..Len(rows) |-> rows[k].capacidade_diaria]))
      + WeightAcessibilidade
          * (10000 - Relative(DistanciaLuanda(rows[i]),
                              MaxOf([k \in 1..Len(rows) |->
                                        DistanciaLuanda(rows[k])])))
      + WeightCustoRelativo
          * (10000 - Relative(rows[i].taxa_aoa,
                              MaxOf([k \in 1..Len(rows) |-> rows[k].taxa_aoa])))

\* validate_derived_features (the relative columns are within [0, 1] for
\* positive capacities, prices and distances)
ValidateDerivedFeatures(rows) ==
    \A i \in 1..Len(rows) :
        /\ SustentabilidadeScore(rows[i]) >= 0
        /\ SustentabilidadeScore(rows[i]) <= MaxFragilidade
        /\ AtratividadeScore(rows, i) >= 0
        /\ AtratividadeScore(rows, i) <= 100000

\* DataProcessor.load_data on a CSV file holding `rows`: whether it returns
\* (ok) or raises, and the object self.df is left bound to; self.df is
\* assigned before the first validation and processed in place before the
\* last one
DataProcessorLoad(rows) ==
    IF ~ValidateDataFrameStructure(rows, RequiredColumns)
         \/ ~ValidateDataContent(rows)
    THEN [ok |-> FALSE, df |-> DataFrame(rows, RequiredColumns)]
    ELSE [ok |-> ValidateValueRanges(rows) /\ ValidateDerivedFeatures(rows),
          df |-> DataFrame(rows, RequiredColumns \cup DerivedColumns)]

\* get_sustainable_locations(max_fragility), max_fragility not None
GetSustainableLocations(d, max_fragility) ==
    LET Sustainable(row) == row.fragilidade <= max_fragility
    IN  SelectSeq(d.rows, Sustainable)

\* get_locations_by_budget(max_budget)
GetLocationsByBudget(d, max_budget) ==
    LET Affordable(row) == row.taxa_aoa <= max_budget
    IN  SelectSeq(d.rows, Affordable)

----------------------------------------------------------------------------
(* EcoTurismoSystem: src/src/core/ecoturismo_system.py                     *)

\* a merge that stacks the two frames
ConcatMerge(left, right) == left \o right

\* pd.merge(left, right, how='inner') on all columns: for each left row, in
\* order, the right rows equal to it
RECURSIVE InnerMergeFrom(_, _, _)
InnerMergeFrom(left, right, i) ==
    IF i > Len(left) THEN <<>>
    ELSE LET Same(row) == row = left[i]
         IN  SelectSeq(right, Same) \o InnerMergeFrom(left, right, i + 1)

InnerMerge(left, right) == InnerMergeFrom(left, right, 1)

\* the rows of filtered_df in generate_traditional_routes; <<>> on each of
\* the three "return []" exits
FilteredLocations(d, max_fragility, max_budget) ==
    IF GetSustainableLocations(d, max_fragility) = <<>> THEN <<>>
    ELSE IF GetLocationsByBudget(d, max_budget) = <<>> THEN <<>>
    ELSE InnerMerge(GetSustainableLocations(d, max_fragility),
                    GetLocationsByBudget(d, max_budget))

----------------------------------------------------------------------------
(* MLRecommendationEngine: src/src/ml/ml_recommendation_engine.py          *)

\* n_clusters of criar_clusters_locais for a catalog of n rows
NClustersML(n) == Min2(8, n \div 3)

\* locais_viaveis with their index labels: the rows priced at most 40% of
\* orcamento_max, from row i on
\* every row from row i on, whatever its price
RECURSIVE TodosLocais(_, _, _)
TodosLocais(rows, orcamento_max, i) ==
    IF i > Len(rows) THEN <<>>
    ELSE <<[local_id |-> i - 1, local |-> rows[i]]>>
             \o TodosLocais(rows, orcamento_max, i + 1)

RECURSIVE LocaisViaveis(_, _, _)
LocaisViaveis(rows, orcamento_max, i) ==
    IF i > Len(rows) THEN <<>>
    ELSE IF 10 * rows[i].taxa_aoa <= 4 * orcamento_max
         THEN <<[local_id |-> i - 1, local |-> rows[i]]>>
                  \o LocaisViaveis(rows, orcamento_max, i + 1)
         ELSE LocaisViaveis(rows, orcamento_max, i + 1)

\* the categories LabelEncoder.transform is asked for, for one row
Categories(row) == {row.provincia, row.tipo_ecosistema}

\* label_encoders[...].transform([...]) for the row: KeyError when the
\* dict holds no encoder, ValueError for a label the encoder was not fitted on
EncodersTransform(label_encoders, row) ==
    label_encoders.fitted /\ Categories(row) \subseteq label_encoders.seen

\* prever_rating_usuario: 3.0 without a rating model; else the features are
\* built (ok = FALSE when an encoder raises) and the model's clipped
\* prediction for the row is returned
PreverRatingUsuario(model, local_id) ==
    IF ~model.rating_model
    THEN [ok |-> TRUE, rating |-> 3]
    ELSE IF ~EncodersTransform(model.label_encoders, model.rows[local_id + 1])
         THEN [ok |-> FALSE, rating |-> 0]
         ELSE [ok |-> TRUE, rating |-> model.ratings[model.rows[local_id + 1].nome]]

\* ratings_previstos before sorting (rating_previsto is 0 where the
\* prediction raised)
RatingsPrevistos(model, viaveis) ==
    [k \in 1..Len(viaveis) |->
        [local_id |-> viaveis[k].local_id,
         rating_previsto |->
             PreverRatingUsuario(model, viaveis[k].local_id).rating,
         local |-> viaveis[k].local]]

\* whether the loop building ratings_previstos raises
PrevisaoRaises(model, viaveis) ==
    \E k \in 1..Len(viaveis) :
        ~PreverRatingUsuario(model, viaveis[k].local_id).ok

\* ratings_previstos.sort(key=rating_previsto, reverse=True): stable
RECURSIVE InsertByRating(_, _)
InsertByRating(sorted_items, item) ==
    IF sorted_items = <<>> THEN <<item>>
    ELSE IF item.rating_previsto > Head(sorted_items).rating_previsto
         THEN <<item>> \o sorted_items
         ELSE <<Head(sorted_items)>> \o InsertByRating(Tail(sorted_items), item)

RECURSIVE SortByRating(_)
SortByRating(items) ==
    IF items = <<>> THEN <<>>
    ELSE InsertByRating(SortByRating(SubSeq(items, 1, Len(items) - 1)),
                        items[Len(items)])

\* the dict appended to rota
LocalDaRota(item) ==
    [local_id |-> item.local_id, nome |-> item.local.nome,
     provincia |-> item.local.provincia, coord |-> item.local.coord,
     fragilidade |-> item.local.fragilidade, taxa_aoa |-> item.local.taxa_aoa,
     rating_previsto |-> item.rating_previsto,
     tipo_ecosistema |-> item.local.tipo_ecosistema]

\* a variant of the item loop that never looks at the clusters
RECURSIVE MontarRotaSemClusters(_, _, _, _, _, _)
MontarRotaSemClusters(items, k, acc, clusters, orcamento_max, max_locais) ==
    IF k > Len(items) \/ Len(acc.rota) >= max_locais THEN acc
    ELSE IF acc.orcamento_usado + items[k].local.taxa_aoa <= orcamento_max
         THEN MontarRotaSemClusters(
                  items, k + 1,
                  [rota |-> Append(acc.rota, LocalDaRota(items[k])),
                   orcamento_usado |->
                       acc.orcamento_usado + items[k].local.taxa_aoa,
                   clusters_usados |->
                       acc.clusters_usados
                           \cup {clusters[items[k].local.nome]}],
                  clusters, orcamento_max, max_locais)
         ELSE MontarRotaSemClusters(items, k + 1, acc, clusters, orcamento_max,
                                    max_locais)

\* the "for item in ratings_previstos" loop from item k on; acc holds rota,
\* orcamento_usado and clusters_usados
RECURSIVE MontarRota(_, _, _, _, _, _)
MontarRota(items, k, acc, clusters, orcamento_max, max_locais) ==
    IF k > Len(items) \/ Len(acc.rota) >= max_locais THEN acc
    ELSE IF /\ clusters[items[k].local.nome] \in acc.clusters_usados
            /\ Len(acc.rota) < max_locais \div 2
         THEN MontarRota(items, k + 1, acc, clusters, orcamento_max, max_locais)
         ELSE IF acc.orcamento_usado + items[k].local.taxa_aoa <= orcamento_max
              THEN MontarRota(
                       items, k + 1,
                       [rota |-> Append(acc.rota, LocalDaRota(items[k])),
                        orcamento_usado |->
                            acc.orcamento_usado + items[k].local.taxa_aoa,
                        clusters_usados |->
                            acc.clusters_usados
                                \cup {clusters[items[k].local.nome]}],
                       clusters, orcamento_max, max_locais)
              ELSE MontarRota(items, k + 1, acc, clusters, orcamento_max,
                              max_locais)

\* _calcular_distancia_rota from position i on, in metres
RECURSIVE DistanciaRota(_, _)
DistanciaRota(rota, i) ==
    IF i >= Len(rota) THEN 0
    ELSE Haversine(rota[i].coord, rota[i + 1].coord) + DistanciaRota(rota, i + 1)

\* rota_info
RotaInfo(rota, orcamento_usado, numero) ==
    [nome |-> numero,
     locais |-> rota,
     num_locais |-> Len(rota),
     distancia_total_km |-> RoundHalfEven(DistanciaRota(rota, 1), 10),
     custo_total_aoa |-> orcamento_usado,
     rating_medio_previsto |->
         MeanRounded(SumSeq([i \in 1..Len(rota) |-> rota[i].rating_previsto]),
                     Len(rota)),
     fragilidade_media |-> FragilidadeMedia(rota),
     score_personalizado |->
         RoundHalfEven(
             100 * (5 * SumSeq([i \in 1..Len(rota) |-> rota[i].rating_previsto])
                      - SumSeq(Fragilities(rota))),
             5 * Len(rota))]

\* the end of one iteration of "for _ in range(n_rotas)": the route, when
\* not empty, joins rotas; clusters_usados carries over
AposRota(acc, built) ==
    [rotas |-> IF built.rota = <<>> THEN acc.rotas
               ELSE Append(acc.rotas,
                           RotaInfo(built.rota, built.orcamento_usado,
                                    Len(acc.rotas) + 1)),
     clusters_usados |-> built.clusters_usados]

\* the "for _ in range(n_rotas)" loop with `left` iterations to go
RECURSIVE GerarRotasLoop(_, _, _, _, _, _)
GerarRotasLoop(items, clusters, orcamento_max, max_locais, left, acc) ==
    IF left = 0 THEN acc.rotas
    ELSE GerarRotasLoop(
             items, clusters, orcamento_max, max_locais, left - 1,
             AposRota(acc,
                      MontarRota(items, 1,
                                 [rota |-> <<>>, orcamento_usado |-> 0,
                                  clusters_usados |-> acc.clusters_usados],
                                 clusters, orcamento_max, max_locais)))

\* gerar_rotas_personalizadas: the list returned, or raised (no catalog
\* loaded; a clustering model that was never fitted asked to predict)
GerarRotasPersonalizadas(model, orcamento_max, max_locais, n_rotas) ==
    IF ~model.loaded THEN [routes |-> <<>>, raised |-> TRUE]
    ELSE IF PrevisaoRaises(model, LocaisViaveis(model.rows, orcamento_max, 1))
         THEN [routes |-> <<>>, raised |-> TRUE]
    ELSE IF model.clustering_model = "none"
         THEN [routes |-> <<>>, raised |-> FALSE]
         ELSE IF model.clustering_model = "unfitted"
              THEN [routes |-> <<>>,
                    raised |-> /\ LocaisViaveis(model.rows, orcamento_max, 1) # <<>>
                               /\ n_rotas > 0 /\ max_locais > 0]
              ELSE [routes |->
                        GerarRotasLoop(
                            SortByRating(
                                RatingsPrevistos(
                                    model,
                                    LocaisViaveis(model.rows, orcamento_max, 1))),
                            model.clusters, orcamento_max, max_locais, n_rotas,
                            [rotas |-> <<>>, clusters_usados |-> {}]),
                    raised |-> FALSE]

\* validate_user_profile.  Preferences are in tenths; a profile is the set
\* of its keys (campos) and their values
ProfileFields ==
    {"idade", "orcamento_max", "preferencia_sustentabilidade",
     "preferencia_aventura", "preferencia_cultura"}

\* a validation that accepts every profile
ValidateUserProfileAlways(profile) == TRUE

ValidateUserProfile(profile) ==
    /\ ProfileFields \subseteq profile.campos
    /\ 18 <= profile.idade /\ profile.idade <= 100
    /\ profile.orcamento_max > 0
    /\ \A f \in {profile.preferencia_sustentabilidade,
                 profile.preferencia_aventura, profile.preferencia_cultura} :
          0 <= f /\ f <= 10

\* criar_features_engenharia on a loaded engine: the encoders are fitted on
\* the catalog's provinces and ecosystems (df_features is a copy)
FitEncoders(rows) ==
    [fitted |-> TRUE, seen |-> UNION {Categories(rows[i]) : i \in 1..Len(rows)}]

\* the outcomes of criar_clusters_locais on a model: KMeans is assigned
\* first and raises in fit_predict when n_clusters is 0
ClustersCriados(model, clusters) ==
    [model EXCEPT
        !.clustering_model =
            IF NClustersML(Len(model.rows)) < 1 THEN "unfitted" ELSE "fitted",
        !.clusters = clusters]

\* a training that returns without keeping the rating model it fitted
TrainMLModelForgets(model, maior_visita, ratings, clusters) ==
    IF ~model.loaded THEN [model |-> model, raised |-> TRUE]
    ELSE IF Len(model.rows) < maior_visita
         THEN [model |-> [model EXCEPT !.label_encoders = FitEncoders(model.rows)],
               raised |-> TRUE]
         ELSE [model |-> ClustersCriados(
                             [model EXCEPT
                                 !.label_encoders = FitEncoders(model.rows)],
                             clusters),
               raised |-> NClustersML(Len(model.rows)) < 1]

\* _train_ml_model: features, synthetic users, rating model, clusters.
\* maior_visita is the largest n_visitas the seeded generator draws:
\* np.random.choice(..., replace=False) raises on a catalog with fewer rows.
\* The result is the engine afterwards and whether the training raised.
TrainMLModel(model, maior_visita, ratings, clusters) ==
    IF ~model.loaded THEN [model |-> model, raised |-> TRUE]
    ELSE IF Len(model.rows) < maior_visita
         THEN [model |-> [model EXCEPT !.label_encoders = FitEncoders(model.rows)],
               raised |-> TRUE]
         ELSE [model |-> ClustersCriados(
                             [model EXCEPT
                                 !.label_encoders = FitEncoders(model.rows),
                                 !.rating_model = TRUE,
                                 !.ratings = ratings],
                             clusters),
               raised |-> NClustersML(Len(model.rows)) < 1]

----------------------------------------------------------------------------
(* Collaborative recommendations: sistema_recomendacao_colaborativo        *)
(* df_usuarios is a sequence of rows [user_id, local_id, rating, idade,    *)
(* preferencia_*]; ratings are in tenths, preferences are 0 or 1 (0.0 and  *)
(* 1.0), idade in years, so that the feature arithmetic is exact.          *)

\* similarities[:20]
NeighbourLimit == 20
\* df_usuarios['rating'] >= 4.0
MinRecommendedRating == 40

UserRows(df_usuarios, u) == SelectSeq(df_usuarios, LAMBDA r : r.user_id = u)

\* df_usuarios['user_id'].unique(): in order of first appearance
RECURSIVE UniqueUserIds(_, _, _)
UniqueUserIds(df_usuarios, i, seen) ==
    IF i > Len(df_usuarios) THEN <<>>
    ELSE IF df_usuarios[i].user_id \in seen
    THEN UniqueUserIds(df_usuarios, i + 1, seen)
    ELSE <<df_usuarios[i].user_id>>
            \o UniqueUserIds(df_usuarios, i + 1,
                             seen \cup {df_usuarios[i].user_id})

\* the mean of the four feature columns over the rows of user u (a user's
\* rows repeat its profile, so the division is exact)
MeanFeatures(df_usuarios, u) ==
    LET rows == UserRows(df_usuarios, u)
        mean(col) == SumSeq([k \in 1..Len(rows) |-> col[k]]) \div Len(rows)
    IN  <<mean([k \in 1..Len(rows) |-> rows[k].preferencia_sustentabilidade]),
          mean([k \in 1..Len(rows) |-> rows[k].preferencia_aventura]),
          mean([k \in 1..Len(rows) |-> rows[k].preferencia_cultura]),
          mean([k \in 1..Len(rows) |-> rows[k].idade])>>

Dot(a, b) == a[1] * b[1] + a[2] * b[2] + a[3] * b[3] + a[4] * b[4]

\* cosine(user, a) > cosine(user, b) for vectors with non-negative
\* components and idade > 0: dot(u,a)/|a| > dot(u,b)/|b|, squared
MoreSimilar(user_features, a, b) ==
    Dot(user_features, a) * Dot(user_features, a) * Dot(b, b)
        > Dot(user_features, b) * Dot(user_features, b) * Dot(a, a)

\* similarities.sort(key=similarity, reverse=True): a stable sort, equal
\* similarities keep their order; x goes before the first strictly less
\* similar entry
RECURSIVE InsertBySimilarity(_, _, _, _)
InsertBySimilarity(user_features, features, sorted, x) ==
    IF sorted = <<>> THEN <<x>>
    ELSE IF MoreSimilar(user_features, features[x], features[Head(sorted)])
    THEN <<x>> \o sorted
    ELSE <<Head(sorted)>>
            \o InsertBySimilarity(user_features, features, Tail(sorted), x)

RECURSIVE SortBySimilarity(_, _, _, _, _)
SortBySimilarity(user_features, features, others, i, sorted) ==
    IF i > Len(others) THEN sorted
    ELSE SortBySimilarity(user_features, features, others, i + 1,
             InsertBySimilarity(user_features, features, sorted, others[i]))

\* the other users, most similar first, cut at the limit
SimilarUsers(df_usuarios, user_id) ==
    LET ids    == UniqueUserIds(df_usuarios, 1, {})
        others == SelectSeq(ids, LAMBDA o : o # user_id)
        features == [o \in Range(ids) \cup {user_id}
                        |-> MeanFeatures(df_usuarios, o)]
        sorted == SortBySimilarity(features[user_id], features, others, 1, <<>>)
    IN  SubSeq(sorted, 1, Min2(NeighbourLimit, Len(sorted)))

LocaisAvaliados(df_usuarios, user_id) ==
    {r.local_id : r \in Range(UserRows(df_usuarios, user_id))}

\* the rows the recommendations are made of, neighbour after neighbour
RECURSIVE Recomendacoes(_, _, _, _)
Recomendacoes(df_usuarios, similar_users, locais_avaliados, i) ==
    IF i > Len(similar_users) THEN <<>>
    ELSE LET user_ratings ==
                 SelectSeq(df_usuarios,
                           LAMBDA r : /\ r.user_id = similar_users[i]
                                      /\ r.rating >= MinRecommendedRating
                                      /\ r.local_id \notin locais_avaliados)
         IN  [k \in 1..Len(user_ratings) |->
                 [local_id |-> user_ratings[k].local_id,
                  rating_previsto |-> user_ratings[k].rating]]
               \o Recomendacoes(df_usuarios, similar_users, locais_avaliados,
                                i + 1)

\* a variant of the deduplication that keeps the first rating of a site
RECURSIVE KeepFirstRating(_, _, _)
KeepFirstRating(recomendacoes, i, unicas) ==
    IF i > Len(recomendacoes) THEN unicas
    ELSE LET rec == recomendacoes[i]
             at  == {k \in 1..Len(unicas) : unicas[k].local_id = rec.local_id}
         IN  KeepFirstRating(recomendacoes, i + 1,
                 IF at = {} THEN Append(unicas, rec) ELSE unicas)

\* recomendacoes_unicas: a dict keyed by local_id, in insertion order; an
\* entry is replaced in place by a strictly higher rating
RECURSIVE RecomendacoesUnicas(_, _, _)
RecomendacoesUnicas(recomendacoes, i, unicas) ==
    IF i > Len(recomendacoes) THEN unicas
    ELSE LET rec == recomendacoes[i]
             at  == {k \in 1..Len(unicas) : unicas[k].local_id = rec.local_id}
         IN  RecomendacoesUnicas(recomendacoes, i + 1,
                 IF at = {} THEN Append(unicas, rec)
                 ELSE LET k == CHOOSE k \in at : TRUE
                      IN  IF rec.rating_previsto > unicas[k].rating_previsto
                          THEN [unicas EXCEPT ![k] = rec] ELSE unicas)

\* sistema_recomendacao_colaborativo(df_usuarios, user_id, n_recommendations)
SistemaRecomendacaoColaborativo(df_usuarios, user_id, n_recommendations) ==
    LET similar_users == SimilarUsers(df_usuarios, user_id)
        recomendacoes ==
            Recomendacoes(df_usuarios, similar_users,
                          LocaisAvaliados(df_usuarios, user_id), 1)
        \* sorted(..., key=rating_previsto, reverse=True)
        top == SortByRating(RecomendacoesUnicas(recomendacoes, 1, <<>>))
    IN  SubSeq(top, 1, Min2(n_recommendations, Len(top)))

----------------------------------------------------------------------------
(* Idle values of the variable groups a specification does not use         *)

NoGeoCall == [done |-> FALSE, ok |-> FALSE, route |-> <<>>]
GeoIdle == geoCoords = <<>> /\ geoStart = 0 /\ geoOut = NoGeoCall

NoCall ==
    [called |-> FALSE, args |-> <<0, 0, 0>>, rng0 |-> 0,
     routes |-> <<>>, raised |-> FALSE, pool |-> <<>>,
     repeat |-> FALSE, before |-> <<>>]
NoOracle == [raises |-> FALSE, labels |-> <<>>]
OptObjectsIdle ==
    /\ df = [rows |-> <<>>, columns |-> {}, cluster |-> <<>>]
    /\ kmeans = NoOracle
    /\ lastCall = NoCall
OptIdle == OptObjectsIdle /\ rng = 0

NoCandidate ==
    [num_locais |-> 0, soma_fragilidade |-> 0, distancia_total_km |-> 0,
     custo_total_aoa |-> 0]
ScoreIdle == candA = NoCandidate /\ candB = NoCandidate /\ scored = <<>>

\* a profile with no key
NoProfile ==
    [campos |-> {}, idade |-> 0, orcamento_max |-> 0,
     preferencia_sustentabilidade |-> 0, preferencia_aventura |-> 0,
     preferencia_cultura |-> 0]

NoArgs ==
    [max_budget |-> 0, max_locations |-> 0, max_fragility |-> 0, num_routes |-> 0]
\* the record of the last call: its arguments and outcome, and for a
\* personalized request the profile and the stages it went through
Called(kind, args, routes, raised) ==
    [kind |-> kind, args |-> args, routes |-> routes, raised |-> raised,
     profile |-> NoProfile, steps |-> {}]

NoSysCall == Called("none", NoArgs, <<>>, FALSE)

\* the engine after __init__
NoModel ==
    [loaded |-> FALSE, rows |-> <<>>, rating_model |-> FALSE,
     ratings |-> [nm \in {} |-> 0],
     clustering_model |-> "none", clusters |-> [nm \in {} |-> 0],
     label_encoders |-> [fitted |-> FALSE, seen |-> {}]]

\* EcoTurismoSystem.__init__ and MLRecommendationEngine.__init__
SysConstructed ==
    /\ sysDf = NoneDf /\ procDf = NoneDf /\ recommended_routes = <<>>
    /\ mlModel = NoModel
    /\ sysLast = NoSysCall
SysIdle == SysConstructed

\* no call made yet
NoDistCall == [kind |-> "none", coords |-> <<>>, route |-> <<>>, ok |-> FALSE]
NoCollabCall ==
    [called |-> FALSE, users |-> <<>>, user_id |-> 0, n |-> 0, out |-> <<>>]
NoSelCall ==
    [called |-> FALSE, scored_routes |-> <<>>, num_routes |-> 0,
     fails |-> FALSE, out |-> <<>>]
DistIdle == distCall = NoDistCall
CollabIdle == collabCall = NoCollabCall
SelIdle == selCall = NoSelCall
CallsIdle == DistIdle /\ CollabIdle /\ SelIdle

\* the service before its first request, and clients that asked nothing
Clients == {"a", "b"}
NoApiSystem == [isNone |-> TRUE, df |-> NoneDf, recommended_routes |-> <<>>,
                rng |-> 0]
NoApiClient == [generated |-> FALSE, routes |-> <<>>,
                exported |-> FALSE, content |-> <<>>, handed |-> "none"]
ApiIdle == apiSystem = NoApiSystem /\ apiClient = [c \in Clients |-> NoApiClient]

\* no training and no encoder fitted yet
NoEncCall ==
    [called |-> FALSE, rows |-> <<>>, visited |-> {},
     trained |-> [ecosistema |-> <<>>, provincia |-> <<>>],
     label_encoders |-> [ecosistema |-> <<>>, provincia |-> <<>>]]
EncIdle == encCall = NoEncCall

\* MLRecommendationEngine.__init__: no rating model, no clustering model, an
\* unfitted scaler, an empty encoder dict (0); a positive value is the
\* number of the training that fitted the artifact
NoArtifacts ==
    [rating_model |-> 0, clustering_model |-> 0, scaler |-> 0,
     label_encoders |-> 0]
\* no file on disk (-1)
NoFiles ==
    [rating_model |-> -1, clustering_model |-> -1, scaler |-> -1,
     label_encoders |-> -1]
NoEngCall == [op |-> "none", ret |-> TRUE]
ArtifactsIdle ==
    /\ artifacts = NoArtifacts /\ prefixFiles = NoFiles /\ modelFiles = NoFiles
    /\ runs = 0 /\ engLast = NoEngCall
EngIdle == EncIdle /\ ArtifactsIdle

----------------------------------------------------------------------------
(* SpecGeo: one call of nearest_neighbor_route                             *)

\* bound: the longest coordinate list
MaxPoints == 4

GeoPoints == {Kissama, Kalandula, Iona, Chimalavera, OffGlobe}

RECURSIVE SeqsUpTo(_, _)
SeqsUpTo(S, n) ==
    IF n = 0 THEN {<<>>}
    ELSE LET shorter == SeqsUpTo(S, n - 1)
         IN  shorter \cup {Append(q, x) : q \in {r \in shorter : Len(r) = n - 1},
                                          x \in S}

\* the start indices valid for n points, and the default 0
StartIndices(n) == IF n = 0 THEN {0} ELSE 0..(n - 1)

GeoInit ==
    /\ geoCoords \in SeqsUpTo(GeoPoints, MaxPoints)
    /\ geoStart \in StartIndices(Len(geoCoords))
    /\ geoOut = NoGeoCall

CallNearestNeighbor ==
    /\ ~geoOut.done
    /\ LET r == NearestNeighborRoute(geoCoords, geoStart)
       IN  geoOut' = [done |-> TRUE, ok |-> r.ok, route |-> r.route]
    /\ UNCHANGED <<geoCoords, geoStart, optVars, scoreVars, sysVars, callVars,
                   apiVars, engVars>>

GeoNext == CallNearestNeighbor

\* the inputs chosen, everything else as constructed
GeoSetup == GeoInit /\ OptIdle /\ ScoreIdle /\ SysIdle /\ CallsIdle /\ ApiIdle
        /\ EngIdle

SpecGeo == GeoSetup /\ [][GeoNext]_vars

----------------------------------------------------------------------------
(* Spec: calls of RouteOptimizer.generate_routes on one catalog object     *)

\* what KMeans can answer for a catalog of n rows
KMeansOutcomes(n) ==
    IF NClusters(n) < 2 THEN {NoOracle}
    ELSE {[raises |-> TRUE, labels |-> <<>>]}
           \cup {[raises |-> FALSE, labels |-> l] :
                    l \in [1..n -> 0..(NClusters(n) - 1)]}

\* argument values; 0 is the falsy value
Budgets == {0, 50000, 80000}
MaxLocationsArgs == {2, 3}
NumRoutesArgs == {0, 1, 2}

OptInit ==
    /\ \E rows \in Catalogs :
          /\ df = [rows |-> rows, columns |-> RequiredColumns, cluster |-> <<>>]
          /\ kmeans \in KMeansOutcomes(Len(rows))
    /\ rng \in 0..(RngStates - 1)
    /\ lastCall = NoCall

\* np.random.seed(s) by the caller
Reseed(s) ==
    /\ rng # s
    /\ rng' = s
    /\ UNCHANGED <<df, kmeans, lastCall, geoVars, scoreVars, sysVars, callVars,
                   apiVars, engVars>>

CallGenerateRoutes(max_locations, num_routes, max_budget) ==
    \E r \in {GenerateRoutes(df, kmeans, rng, max_locations, num_routes,
                               max_budget)} :
    LET args == <<max_locations, num_routes, max_budget>>
        again == lastCall.called /\ lastCall.args = args /\ lastCall.rng0 = rng
    IN  /\ df' = r.df
        /\ rng' = r.rng
        /\ lastCall' = [called |-> TRUE, args |-> args, rng0 |-> rng,
                        routes |-> r.routes, raised |-> r.raised,
                        pool |-> r.pool,
                        repeat |-> again,
                        before |-> IF again THEN lastCall.routes ELSE <<>>]
        /\ UNCHANGED <<kmeans, geoVars, scoreVars, sysVars, callVars, apiVars, engVars>>

OptNext ==
    \/ \E s \in 0..(RngStates - 1) : Reseed(s)
    \/ \E ml \in MaxLocationsArgs, nr \in NumRoutesArgs, b \in Budgets :
          CallGenerateRoutes(ml, nr, b)

\* the catalog chosen, everything else as constructed
OptSetup == OptInit /\ GeoIdle /\ ScoreIdle /\ SysIdle /\ CallsIdle /\ ApiIdle
        /\ EngIdle

Spec == OptSetup /\ [][OptNext]_vars

----------------------------------------------------------------------------
(* SpecScore: _calculate_route_scores on two candidates that differ in the *)
(* fragility of their sites only                                           *)

\* bound: the longest route
MaxRouteLen == 13

\* a candidate by its number of sites and the sum of their fragilities
ScoreCandidates ==
    UNION {{[num_locais |-> n, soma_fragilidade |-> t] :
               t \in (n * MinFragilidade)..(n * MaxFragilidade)} :
           n \in 1..MaxRouteLen}

\* recorded distance and cost the two candidates share
SharedMetrics ==
    {[distancia_total_km |-> 0, custo_total_aoa |-> 5000],
     [distancia_total_km |-> 94505, custo_total_aoa |-> 45000]}

Candidate(c, m) ==
    [num_locais |-> c.num_locais, soma_fragilidade |-> c.soma_fragilidade,
     distancia_total_km |-> m.distancia_total_km,
     custo_total_aoa |-> m.custo_total_aoa]

\* candA has the strictly larger mean fragility
ScoreInit ==
    /\ \E a \in ScoreCandidates, b \in ScoreCandidates, m \in SharedMetrics :
          /\ a.soma_fragilidade * b.num_locais > b.soma_fragilidade * a.num_locais
          /\ candA = Candidate(a, m)
          /\ candB = Candidate(b, m)
    /\ scored = <<>>

\* the route dict of a candidate as _create_route_from_locations records it
CandidateRoute(c) ==
    [num_locais |-> c.num_locais,
     distancia_total_km |-> c.distancia_total_km,
     custo_total_aoa |-> c.custo_total_aoa,
     fragilidade_media |-> MeanRounded(c.soma_fragilidade, c.num_locais),
     score |-> -1]

CallCalculateRouteScores ==
    /\ scored = <<>>
    /\ scored' = CalculateRouteScores(<<CandidateRoute(candA), CandidateRoute(candB)>>)
    /\ UNCHANGED <<candA, candB, geoVars, optVars, sysVars, callVars, apiVars, engVars>>

ScoreNext == CallCalculateRouteScores

\* the two candidates chosen, everything else as constructed
ScoreSetup == ScoreInit /\ GeoIdle /\ OptIdle /\ SysIdle /\ CallsIdle /\ ApiIdle
        /\ EngIdle

SpecScore == ScoreSetup /\ [][ScoreNext]_vars

----------------------------------------------------------------------------
(* SpecSys: the system, its data processor and the ML engine               *)

\* the CSV files load_data is pointed at
CsvFiles ==
    {<<SiteIona, SiteChimalavera>>, <<SiteKissama, SiteKalandula, SiteIona>>}

\* the names of the sites of the catalogs
CatalogNames ==
    {"Kissama", "Kalandula", "Iona", "Chimalavera", "Mussulo", "Tundavala",
     "Maiombe"}

\* the CSV file the engine is constructed with
MLCsvFiles ==
    {<<SiteIona, SiteChimalavera>>,
     <<SiteKissama, SiteKalandula, SiteIona>>,
     <<SiteKissama, SiteKalandula, SiteIona, SiteChimalavera, SiteTundavala,
       SiteMaiombe>>}

\* argument values; 0 is the falsy value
SysBudgets == {0, 80000}
SysMaxLocations == {2, 3}
MaxFragilityArgs == {0, 5}
SysNumRoutes == {2}
MLBudgets == {10000, 50000}
MLMaxLocais == {2, 4}
MLNumRotas == {2}

\* the profiles of the personalized requests: a valid one, and one for
\* each way of being invalid
ValidProfile ==
    [campos |-> ProfileFields, idade |-> 30, orcamento_max |-> 80000,
     preferencia_sustentabilidade |-> 8, preferencia_aventura |-> 6,
     preferencia_cultura |-> 7]
Profiles ==
    {ValidProfile,
     [ValidProfile EXCEPT !.idade = 10],
     [ValidProfile EXCEPT !.orcamento_max = 0],
     [ValidProfile EXCEPT !.preferencia_aventura = 15],
     [ValidProfile EXCEPT !.campos = ProfileFields \ {"preferencia_cultura"}]}

\* max_budget of generate_ml_routes; 0 is None
MLRequestBudgets == {0, 50000}

\* the largest n_visitas criar_dados_sinteticos_usuarios can draw from
\* np.random.randint(3, 15) over its users
MaioresVisitas == {3, 14}

\* what the trained rating model predicts for the rows, for one profile
\* (a function of the site, whatever catalog the engine holds later)
RatingOracles(n) ==
    {[nm \in CatalogNames |-> 3],
     [nm \in CatalogNames |->
         IF nm \in {"Chimalavera", "Tundavala", "Maiombe"} THEN 4 ELSE 3]}

\* what the clustering model fitted on n rows predicts for a site
ClusterOracles(n) ==
    IF NClustersML(n) < 2 THEN {[nm \in CatalogNames |-> 0]}
    ELSE {[nm \in CatalogNames |-> 0],
          [nm \in CatalogNames |->
              IF nm \in {"Kissama", "Iona", "Tundavala"} THEN 1 ELSE 0]}

SysInit == SysConstructed /\ rng = 0

\* the variables the system's operations never touch
otherVars == <<geoVars, scoreVars, df, kmeans, lastCall, callVars, apiVars, engVars>>

\* MLRecommendationEngine.carregar_dados reading a file that holds `rows`
EngineLoaded(model, rows) == [model EXCEPT !.loaded = TRUE, !.rows = rows]

\* EcoTurismoSystem.load_data: system.df is bound only when the processor
\* returns; the engine then reads the configured catalog file, and keeps
\* what it had when that file cannot be read (ml_rows = <<>>)
LoadData(rows) ==
    \E out \in {DataProcessorLoad(rows)} :
        /\ procDf' = out.df
        /\ sysDf' = IF out.ok THEN out.df ELSE sysDf
        /\ \E ml_rows \in MLCsvFiles \cup {<<>>} :
              mlModel' = IF out.ok /\ ml_rows # <<>>
                         THEN EngineLoaded(mlModel, ml_rows) ELSE mlModel
        /\ sysLast' = Called("load", NoArgs, <<>>, ~out.ok)
        /\ UNCHANGED <<recommended_routes, rng, otherVars>>

\* EcoTurismoSystem.generate_traditional_routes
GenerateTraditionalRoutes(max_budget, max_locations, max_fragility, num_routes) ==
    LET args == [max_budget |-> max_budget, max_locations |-> max_locations,
                 max_fragility |-> max_fragility, num_routes |-> num_routes]
        filtered == FilteredLocations(procDf,
                                      OrDefault(max_fragility, DefaultMaxFragility),
                                      OrDefault(max_budget, DefaultMaxBudget))
    IN  IF sysDf.isNone
        THEN /\ sysLast' = Called("traditional", args, <<>>, TRUE)
             /\ UNCHANGED <<sysDf, procDf, recommended_routes, mlModel, rng,
                            otherVars>>
        ELSE IF filtered = <<>>
        THEN /\ sysLast' = Called("traditional", args, <<>>, FALSE)
             /\ UNCHANGED <<sysDf, procDf, recommended_routes, mlModel, rng,
                            otherVars>>
        ELSE \E oracle \in KMeansOutcomes(Len(filtered)) :
             \E r \in {GenerateRoutes(
                          [rows |-> filtered, columns |-> procDf.columns,
                           cluster |-> <<>>],
                          oracle, rng,
                          OrDefault(max_locations, DefaultMaxLocations),
                          OrDefault(num_routes, DefaultNumRoutes),
                          OrDefault(max_budget, DefaultMaxBudget))} :
                /\ recommended_routes' =
                       IF r.raised THEN recommended_routes ELSE r.routes
                /\ rng' = r.rng
                /\ sysLast' = Called("traditional", args, r.routes, r.raised)
                /\ UNCHANGED <<sysDf, procDf, mlModel, otherVars>>

\* carregar_dados: the engine reads the file it was constructed with
CarregarDados(rows) ==
    /\ mlModel.rows # rows
    /\ mlModel' = EngineLoaded(mlModel, rows)
    /\ sysLast' = Called("ml_load", NoArgs, <<>>, FALSE)
    /\ UNCHANGED <<sysDf, procDf, recommended_routes, rng, otherVars>>

\* treinar_modelo_rating, then criar_clusters_locais: KMeans with
\* n_clusters = 0 raises after the model object is assigned
TreinarModelos ==
    /\ mlModel.loaded
    /\ mlModel.clustering_model = "none"
    /\ \E ratings \in RatingOracles(Len(mlModel.rows)),
          clusters \in ClusterOracles(Len(mlModel.rows)) :
          mlModel' = [mlModel EXCEPT
                         !.rating_model = TRUE,
                         !.ratings = ratings,
                         !.clustering_model =
                             IF NClustersML(Len(mlModel.rows)) < 1
                             THEN "unfitted" ELSE "fitted",
                         !.clusters = clusters]
    /\ sysLast' = Called("ml_train", NoArgs, <<>>,
                          NClustersML(Len(mlModel.rows)) < 1)
    /\ UNCHANGED <<sysDf, procDf, recommended_routes, rng, otherVars>>

\* the four files a completed training of an earlier process left in the
\* models directory (save_models at the end of _train_ml_model)
SavedModels ==
    [ratings |-> [nm \in CatalogNames |->
                     IF nm \in {"Chimalavera", "Tundavala", "Maiombe"} THEN 4 ELSE 3],
     clusters |-> [nm \in CatalogNames |->
                      IF nm \in {"Kissama", "Iona", "Tundavala"} THEN 1 ELSE 0],
     label_encoders |->
         FitEncoders(<<SiteKissama, SiteKalandula, SiteIona, SiteChimalavera,
                       SiteTundavala, SiteMaiombe>>)]

\* MLRecommendationEngine.load_models with the four files present: each
\* artifact is replaced by the saved one
LoadModels ==
    /\ mlModel' = [mlModel EXCEPT
                      !.rating_model = TRUE,
                      !.ratings = SavedModels.ratings,
                      !.clustering_model = "fitted",
                      !.clusters = SavedModels.clusters,
                      !.label_encoders = SavedModels.label_encoders]
    /\ mlModel' # mlModel
    /\ sysLast' = Called("ml_load_models", NoArgs, <<>>, FALSE)
    /\ UNCHANGED <<sysDf, procDf, recommended_routes, rng, otherVars>>

\* what _train_ml_model can leave behind, over what the seeded generators
\* and the fitted models answer
TrainingOutcomes(model) ==
    {TrainMLModel(model, maior_visita, ratings, clusters) :
        maior_visita \in MaioresVisitas,
        ratings \in RatingOracles(Len(model.rows)),
        clusters \in ClusterOracles(Len(model.rows))}

\* criar_features_engenharia called on the engine: None without a catalog
CriarFeaturesEngenharia ==
    /\ mlModel' = IF mlModel.loaded
                  THEN [mlModel EXCEPT !.label_encoders = FitEncoders(mlModel.rows)]
                  ELSE mlModel
    /\ mlModel' # mlModel
    /\ rng' = IF mlModel.loaded THEN 0 ELSE rng
    /\ sysLast' = Called("ml_features", NoArgs, <<>>, FALSE)
    /\ UNCHANGED <<sysDf, procDf, recommended_routes, otherVars>>

\* EcoTurismoSystem.generate_ml_routes: the checks, the profile validation,
\* the defaults, the training when the engine has no rating model, the
\* personalized routes, which are stored when they come back
GenerateMLRoutes(user_profile, max_budget, max_locations, num_routes) ==
    LET args == [max_budget |-> max_budget, max_locations |-> max_locations,
                 max_fragility |-> 0, num_routes |-> num_routes]
        call(routes, raised, steps) ==
            [Called("generate_ml", args, routes, raised) EXCEPT
                 !.profile = user_profile, !.steps = steps]
    IN  IF sysDf.isNone
        THEN /\ sysLast' = call(<<>>, TRUE, {})
             /\ UNCHANGED <<sysDf, procDf, recommended_routes, mlModel, rng,
                            otherVars>>
        ELSE IF ~ValidateUserProfile(user_profile)
        THEN /\ sysLast' = call(<<>>, TRUE, {"validate"})
             /\ UNCHANGED <<sysDf, procDf, recommended_routes, mlModel, rng,
                            otherVars>>
        ELSE \E t \in (IF mlModel.rating_model
                        THEN {[model |-> mlModel, raised |-> FALSE]}
                        ELSE TrainingOutcomes(mlModel)) :
             \E r \in {IF t.raised THEN [routes |-> <<>>, raised |-> TRUE]
                        ELSE GerarRotasPersonalizadas(
                                 t.model,
                                 OrDefault(max_budget, user_profile.orcamento_max),
                                 OrDefault(max_locations, DefaultMaxLocations),
                                 OrDefault(num_routes, DefaultNumRoutes))} :
                /\ mlModel' = t.model
                /\ rng' = IF mlModel.rating_model THEN rng ELSE 0
                /\ recommended_routes' =
                       IF r.raised THEN recommended_routes ELSE r.routes
                /\ sysLast' =
                       call(r.routes, r.raised,
                            {"validate"}
                              \cup (IF mlModel.rating_model THEN {} ELSE {"train"})
                              \cup (IF t.raised THEN {} ELSE {"predict"}))
                /\ UNCHANGED <<sysDf, procDf, otherVars>>

\* gerar_rotas_personalizadas
CallGerarRotasPersonalizadas(orcamento_max, max_locais, n_rotas) ==
    \E r \in {GerarRotasPersonalizadas(mlModel, orcamento_max, max_locais,
                                        n_rotas)} :
        /\ sysLast' = Called("ml",
                              [max_budget |-> orcamento_max,
                               max_locations |-> max_locais,
                               max_fragility |-> 0, num_routes |-> n_rotas],
                              r.routes, r.raised)
        /\ UNCHANGED <<sysDf, procDf, recommended_routes, mlModel, rng,
                       otherVars>>

SysNext ==
    \/ \E rows \in CsvFiles : LoadData(rows)
    \/ \E b \in SysBudgets, ml \in SysMaxLocations, f \in MaxFragilityArgs,
          nr \in SysNumRoutes : GenerateTraditionalRoutes(b, ml, f, nr)
    \/ \E rows \in MLCsvFiles : CarregarDados(rows)
    \/ TreinarModelos
    \/ CriarFeaturesEngenharia
    \/ LoadModels
    \/ \E p \in Profiles, b \in MLRequestBudgets :
          GenerateMLRoutes(p, b, 2, 1)
    \/ \E b \in MLBudgets, ml \in MLMaxLocais, nr \in MLNumRotas :
          CallGerarRotasPersonalizadas(b, ml, nr)

\* the system as constructed
SysSetup ==
    SysInit /\ GeoIdle /\ OptObjectsIdle /\ ScoreIdle /\ CallsIdle /\ ApiIdle
        /\ EngIdle

SpecSys == SysSetup /\ [][SysNext]_vars

----------------------------------------------------------------------------
(* SpecDist: one call of a distance computation of GeographicCalculator    *)

\* bound: the longest coordinate list of a distance computation
MaxDistPoints == 3

DistPoints == {Kissama, Kalandula, Iona, OffGlobe}
DistCoordinates == SeqsUpTo(DistPoints, MaxDistPoints)

\* index lists over n points, up to n indices, none repeated
RouteIndices(n) ==
    {r \in SeqsUpTo(0..(n - 1), n) : \A i, j \in 1..Len(r) : r[i] = r[j] => i = j}

DistInit == distCall = NoDistCall

Dist(kind, coords, route, ok) ==
    [kind |-> kind, coords |-> coords, route |-> route, ok |-> ok]

CallCalculateDistance(coord1, coord2) ==
    /\ distCall.kind = "none"
    /\ distCall' = Dist("distance", <<coord1, coord2>>, <<>>,
                        CalculateDistance(coord1, coord2).ok)
    /\ UNCHANGED <<geoVars, optVars, scoreVars, sysVars, collabCall, selCall,
                   apiVars, engVars>>

CallCalculateDistanceMatrix(coordinates) ==
    /\ distCall.kind = "none"
    /\ distCall' = Dist("matrix", coordinates, <<>>,
                        CalculateDistanceMatrix(coordinates).ok)
    /\ UNCHANGED <<geoVars, optVars, scoreVars, sysVars, collabCall, selCall,
                   apiVars, engVars>>

\* nearest_neighbor_route; route records the start index
CallNearestNeighborRoute(coordinates, start_index) ==
    /\ distCall.kind = "none"
    /\ distCall' = Dist("tour", coordinates, <<start_index>>,
                        NearestNeighborRoute(coordinates, start_index).ok)
    /\ UNCHANGED <<geoVars, optVars, scoreVars, sysVars, collabCall, selCall,
                   apiVars, engVars>>

CallCalculateRouteDistance(coordinates, route_indices) ==
    /\ distCall.kind = "none"
    /\ distCall' = Dist("route_distance", coordinates, route_indices,
                        CalculateRouteDistance(coordinates, route_indices).ok)
    /\ UNCHANGED <<geoVars, optVars, scoreVars, sysVars, collabCall, selCall,
                   apiVars, engVars>>

DistNext ==
    \/ \E c1 \in DistPoints, c2 \in DistPoints : CallCalculateDistance(c1, c2)
    \/ \E coords \in DistCoordinates : CallCalculateDistanceMatrix(coords)
    \/ \E coords \in DistCoordinates :
          \E start \in StartIndices(Len(coords)) :
             CallNearestNeighborRoute(coords, start)
    \/ \E coords \in DistCoordinates :
          \E route \in RouteIndices(Len(coords)) :
             CallCalculateRouteDistance(coords, route)

DistSetup ==
    DistInit /\ GeoIdle /\ OptIdle /\ ScoreIdle /\ SysIdle /\ CollabIdle
        /\ SelIdle /\ ApiIdle
        /\ EngIdle

SpecDist == DistSetup /\ [][DistNext]_vars

----------------------------------------------------------------------------
(* SpecCollab: one call of sistema_recomendacao_colaborativo                *)

\* bound: the number of users that share one profile and one visit
CrowdSize == 20

UsuarioRow(user_id, profile, local_id, rating) ==
    [user_id |-> user_id, local_id |-> local_id, rating |-> rating,
     idade |-> profile.idade,
     preferencia_sustentabilidade |-> profile.preferencia_sustentabilidade,
     preferencia_aventura |-> profile.preferencia_aventura,
     preferencia_cultura |-> profile.preferencia_cultura]

UserProfileOf(idade, ps, pa, pc) ==
    [idade |-> idade, preferencia_sustentabilidade |-> ps,
     preferencia_aventura |-> pa, preferencia_cultura |-> pc]

\* the target user 0 and what it has rated
TargetProfile == UserProfileOf(25, 1, 0, 1)
TargetRows(locais) ==
    [k \in 1..Len(locais) |-> UsuarioRow(0, TargetProfile, locais[k], 45)]

OtherProfiles ==
    {UserProfileOf(25, 1, 0, 1), UserProfileOf(18, 0, 1, 0),
     UserProfileOf(35, 1, 1, 1)}

\* users 3, 4, ... with one profile, each with one visit
CrowdRows(size, profile, local_id, rating) ==
    [k \in 1..size |-> UsuarioRow(2 + k, profile, local_id, rating)]

\* the interaction tables of the calls
DfUsuarios ==
    {LET keys == <<UsuarioRow(1, p1, v1[1], v1[2])>>
                   \o <<UsuarioRow(2, p2, 2, r2), UsuarioRow(2, p2, 0, 50)>>
         crowd == CrowdRows(size, pc, 2, rc)
     IN  TargetRows(locais) \o (IF crowd_first THEN crowd \o keys
                                ELSE keys \o crowd) :
        locais \in {<<0>>, <<0, 1>>},
        p1 \in OtherProfiles, v1 \in {<<1, 48>>, <<2, 35>>, <<2, 47>>},
        p2 \in {UserProfileOf(18, 0, 1, 0), UserProfileOf(35, 1, 1, 1)},
        r2 \in {39, 50},
        size \in {0, CrowdSize},
        pc \in {UserProfileOf(25, 1, 0, 1), UserProfileOf(18, 0, 1, 0)},
        rc \in {41},
        crowd_first \in BOOLEAN}

NRecommendations == {1, 2, 10}

CollabInit == collabCall = NoCollabCall

CallSistemaRecomendacaoColaborativo(df_usuarios, n_recommendations) ==
    /\ ~collabCall.called
    /\ collabCall' =
           [called |-> TRUE, users |-> df_usuarios, user_id |-> 0,
            n |-> n_recommendations,
            out |-> SistemaRecomendacaoColaborativo(df_usuarios, 0,
                                                    n_recommendations)]
    /\ UNCHANGED <<geoVars, optVars, scoreVars, sysVars, distCall, selCall,
                   apiVars, engVars>>

CollabNext ==
    \E df_usuarios \in DfUsuarios, n \in NRecommendations :
        CallSistemaRecomendacaoColaborativo(df_usuarios, n)

CollabSetup ==
    CollabInit /\ GeoIdle /\ OptIdle /\ ScoreIdle /\ SysIdle /\ DistIdle
        /\ SelIdle /\ ApiIdle
        /\ EngIdle

SpecCollab == CollabSetup /\ [][CollabNext]_vars

----------------------------------------------------------------------------
(* SpecApi: requests of two clients against the HTTP service, whose        *)
(* handlers all work on the one module global ecoturismo_system.  A        *)
(* handler has no await in its body, so each request is one step.          *)

\* the catalog file the service is configured with
ApiCatalog == <<SiteKissama, SiteKalandula, SiteIona>>

\* fields of RouteRequest that a client sends
ApiBudgets == {50000, 80000}
ApiMaxLocations == {2, 3}
ApiMaxFragility == {5}
ApiNumRoutes == {2}

\* EcoTurismoSystem(use_ml=True) followed by load_data()
ApiSystemLoaded ==
    [isNone |-> FALSE, df |-> DataProcessorLoad(ApiCatalog).df,
     recommended_routes |-> <<>>, rng |-> 0]

\* EcoTurismoSystem(use_ml=True) bound to the global, load_data() raised
ApiSystemUnloaded ==
    [isNone |-> FALSE, df |-> NoneDf, recommended_routes |-> <<>>, rng |-> 0]

\* the try block of get_ecoturismo_system and of startup_event: the
\* constructor raises, or the global is bound and load_data raises, or both
\* return; `system` is the global afterwards
InitializeSystem ==
    {[system |-> NoApiSystem, raised |-> TRUE],
     [system |-> ApiSystemUnloaded, raised |-> TRUE],
     [system |-> ApiSystemLoaded, raised |-> FALSE]}

\* get_ecoturismo_system: the global, created on first use; HTTP 500 when
\* the creation raised
GetEcoturismoSystem ==
    IF apiSystem.isNone THEN InitializeSystem
    ELSE {[system |-> apiSystem, raised |-> FALSE]}

\* what the request of a client was handed by the dependency
Handed(got) ==
    IF got.raised THEN "init_error"
    ELSE IF got.system.df.isNone THEN "unloaded" ELSE "loaded"

\* startup_event: the exception is logged
StartupEvent ==
    /\ apiSystem.isNone
    /\ \E got \in InitializeSystem : apiSystem' = got.system
    /\ apiSystem' # apiSystem
    /\ UNCHANGED <<apiClient, geoVars, optVars, scoreVars, sysVars, callVars, engVars>>

\* system.generate_traditional_routes on the global: what it returns, what
\* it stores in recommended_routes, and the random state it leaves
TraditionalOutcomes(system, max_budget, max_locations, max_fragility, num_routes) ==
    LET filtered == FilteredLocations(system.df,
                                      OrDefault(max_fragility, DefaultMaxFragility),
                                      OrDefault(max_budget, DefaultMaxBudget))
    IN  IF system.df.isNone
        THEN {[routes |-> <<>>, raised |-> TRUE, system |-> system]}
        ELSE IF filtered = <<>>
        THEN {[routes |-> <<>>, raised |-> FALSE, system |-> system]}
        ELSE {[routes |-> r.routes, raised |-> r.raised,
               system |-> [system EXCEPT
                              !.recommended_routes =
                                  IF r.raised THEN @ ELSE r.routes,
                              !.rng = r.rng]] :
                 r \in {GenerateRoutes(
                           [rows |-> filtered, columns |-> system.df.columns,
                            cluster |-> <<>>],
                           oracle, system.rng,
                           OrDefault(max_locations, DefaultMaxLocations),
                           OrDefault(num_routes, DefaultNumRoutes),
                           OrDefault(max_budget, DefaultMaxBudget)) :
                        oracle \in KMeansOutcomes(Len(filtered))}}

\* POST /routes/traditional by client c: the response carries the routes
ApiGenerateTraditionalRoutes(c, max_budget, max_locations, max_fragility, num_routes) ==
    \E got \in GetEcoturismoSystem :
        IF got.raised
        THEN /\ apiSystem' = got.system
             /\ apiClient' = [apiClient EXCEPT
                                 ![c] = [NoApiClient EXCEPT
                                            !.handed = Handed(got)]]
             /\ UNCHANGED <<geoVars, optVars, scoreVars, sysVars, callVars, engVars>>
        ELSE \E out \in TraditionalOutcomes(got.system, max_budget,
                                            max_locations, max_fragility,
                                            num_routes) :
             /\ apiSystem' = out.system
             /\ apiClient' = [apiClient EXCEPT
                                 ![c] = [generated |-> ~out.raised,
                                         routes |-> out.routes,
                                         exported |-> FALSE, content |-> <<>>,
                                         handed |-> Handed(got)]]
             /\ UNCHANGED <<geoVars, optVars, scoreVars, sysVars, callVars, engVars>>

\* GET /routes/export/csv by client c: generate_csv_report writes the
\* routes the global holds; with none the request fails
ApiExportCsvReport(c) ==
    \E got \in GetEcoturismoSystem :
        /\ apiSystem' = got.system
        /\ apiClient' = [apiClient EXCEPT
                            ![c].exported =
                                ~got.raised /\ got.system.recommended_routes # <<>>,
                            ![c].content =
                                IF got.raised THEN <<>>
                                ELSE got.system.recommended_routes,
                            ![c].handed = Handed(got)]
        /\ <<apiSystem', apiClient'>> # <<apiSystem, apiClient>>
        /\ UNCHANGED <<geoVars, optVars, scoreVars, sysVars, callVars, engVars>>

ApiInit == ApiIdle

ApiNext ==
    \/ StartupEvent
    \/ \E c \in Clients, b \in ApiBudgets, ml \in ApiMaxLocations,
          f \in ApiMaxFragility, nr \in ApiNumRoutes :
          ApiGenerateTraditionalRoutes(c, b, ml, f, nr)
    \/ \E c \in Clients : ApiExportCsvReport(c)

ApiSetup ==
    ApiInit /\ GeoIdle /\ OptIdle /\ ScoreIdle /\ SysIdle /\ CallsIdle
        /\ EngIdle

SpecApi == ApiSetup /\ [][ApiNext]_vars

----------------------------------------------------------------------------
(* SpecSel: one call of _select_best_routes on a list of scored candidates *)

\* bound: the longest list of candidates
MaxCandidates == 3

RouteKeys ==
    {"nome", "locais", "num_locais", "distancia_total_km", "custo_total_aoa",
     "fragilidade_media", "provincias", "tipos_ecosistema", "score"}

RouteDict(locais, distancia_total_km, score, chaves) ==
    [locais |-> locais, distancia_total_km |-> distancia_total_km,
     score |-> score, chaves |-> chaves]

LocalKissama == ToRecord(SiteKissama, RequiredColumns, 0)
LocalKalandula == ToRecord(SiteKalandula, RequiredColumns, 0)
LocalSemTaxa ==
    [LocalKalandula EXCEPT !.campos = @ \ {"taxa_aoa"}]

\* a well-formed candidate, one with a site twice, one with a site lacking
\* taxa_aoa, one with a negative distance, one dict lacking 'score' and one
\* lacking 'locais'
CandidatePool ==
    {RouteDict(<<LocalKissama, LocalKalandula>>, 30618, 1200, RouteKeys),
     RouteDict(<<LocalKissama, LocalKissama>>, 0, 900, RouteKeys),
     RouteDict(<<LocalKissama, LocalSemTaxa>>, 30618, 800, RouteKeys),
     RouteDict(<<LocalKalandula, LocalKissama>>, -30618, 700, RouteKeys),
     RouteDict(<<LocalKissama, LocalKissama>>, 0, 0, RouteKeys \ {"score"}),
     RouteDict(<<>>, -1, 600, RouteKeys \ {"locais"})}

SelNumRoutes == {1, 2, 3}

SelInit == selCall = NoSelCall

CallSelectBestRoutes(scored_routes, num_routes) ==
    /\ ~selCall.called
    /\ selCall' = [called |-> TRUE, scored_routes |-> scored_routes,
                   num_routes |-> num_routes,
                   fails |-> scored_routes # <<>>
                               /\ SelectBestRoutesRaises(scored_routes, num_routes),
                   out |-> SelectBestRoutesOf(scored_routes, num_routes)]
    /\ UNCHANGED <<geoVars, optVars, scoreVars, sysVars, distCall, collabCall,
                   apiVars, engVars>>

SelNext ==
    \E scored_routes \in SeqsUpTo(CandidatePool, MaxCandidates),
       num_routes \in SelNumRoutes :
        CallSelectBestRoutes(scored_routes, num_routes)

SelSetup ==
    SelInit /\ GeoIdle /\ OptIdle /\ ScoreIdle /\ SysIdle /\ DistIdle
        /\ CollabIdle /\ ApiIdle
        /\ EngIdle

SpecSel == SelSetup /\ [][SelNext]_vars

----------------------------------------------------------------------------
(* SpecEnc: the label encoders of one training: those kept on the engine   *)
(* by criar_features_engenharia, used by prever_rating_usuario, and those  *)
(* treinar_modelo_rating fits for the matrix of the rating model           *)

\* the category labels in the order np.unique sorts them
LabelOrder ==
    <<"Benguela", "Cabinda", "Huila", "Luanda", "Malange", "Namibe",
      "costa", "deserto", "floresta", "montanha", "savana">>

\* LabelEncoder.fit: classes_, the sorted distinct labels
LabelEncoderFit(labels) ==
    LET Seen(l) == l \in labels IN SelectSeq(LabelOrder, Seen)

\* LabelEncoder.transform of one label: its index in classes_; -1 stands
\* for the ValueError on a label that was not fitted
LabelEncoderTransform(classes, label) ==
    IF \E i \in 1..Len(classes) : classes[i] = label
    THEN (CHOOSE i \in 1..Len(classes) : classes[i] = label) - 1
    ELSE -1

\* bound: the largest catalog of a training
MaxEncSites == 4
\* np.random.randint(3, 15): a user visits at least 3 sites
MinVisitas == 3

EncSites ==
    <<SiteKissama, SiteKalandula, SiteIona, SiteMussulo, SiteChimalavera,
      SiteTundavala, SiteMaiombe>>

\* the catalogs a training can run on
EncCatalogs ==
    {SubSeqAt(EncSites, idx, 1) :
        idx \in {x \in SUBSET (1..Len(EncSites)) :
                    MinVisitas <= Cardinality(x) /\ Cardinality(x) <= MaxEncSites}}

\* the local_id values that occur in df_usuarios: every user draws at least
\* MinVisitas distinct rows
VisitedSets(rows) ==
    {v \in SUBSET (0..(Len(rows) - 1)) : Cardinality(v) >= MinVisitas}

\* criar_features_engenharia, criar_dados_sinteticos_usuarios and
\* treinar_modelo_rating: the encoders stored on the engine are fitted on
\* the catalog, the encoders of the training matrix on df_usuarios
TreinarModeloRating(rows, visited) ==
    /\ ~encCall.called
    /\ encCall' =
           [called |-> TRUE, rows |-> rows, visited |-> visited,
            trained |->
                [ecosistema |->
                     LabelEncoderFit({rows[i + 1].tipo_ecosistema : i \in visited}),
                 provincia |->
                     LabelEncoderFit({rows[i + 1].provincia : i \in visited})],
            label_encoders |->
                [ecosistema |->
                     LabelEncoderFit({rows[i].tipo_ecosistema : i \in 1..Len(rows)}),
                 provincia |->
                     LabelEncoderFit({rows[i].provincia : i \in 1..Len(rows)})]]
    /\ UNCHANGED <<artifacts, prefixFiles, modelFiles, runs, engLast, geoVars,
                   optVars, scoreVars, sysVars, callVars, apiVars>>

EncInit == EncIdle

EncNext ==
    \E rows \in EncCatalogs : \E visited \in VisitedSets(rows) :
        TreinarModeloRating(rows, visited)

EncSetup ==
    EncInit /\ ArtifactsIdle /\ GeoIdle /\ OptIdle /\ ScoreIdle /\ SysIdle
        /\ CallsIdle /\ ApiIdle

SpecEnc == EncSetup /\ [][EncNext]_vars

----------------------------------------------------------------------------
(* SpecArt: the four model artifacts of the engine across trainings, saves *)
(* and loads.  An artifact is 0 as __init__ leaves it (None, the unfitted  *)
(* scaler, the empty encoder dict) or the number of the training that      *)
(* fitted it; a file is -1 when absent, else the artifact dumped into it.  *)

\* bound: the number of trainings
MaxRuns == 2

\* the artifacts in the order carregar_modelos and load_models read them
ArtifactOrder == <<"rating_model", "clustering_model", "scaler", "label_encoders">>

ArtifactIndex(name) == CHOOSE i \in 1..Len(ArtifactOrder) : ArtifactOrder[i] = name

\* the position of the first joblib.load that raises in carregar_modelos:
\* the first absent file or the file at read_error, whichever comes first;
\* Len(ArtifactOrder) + 1 when every load returns
FirstFailure(files, read_error) ==
    LET failing == {i \in 1..Len(ArtifactOrder) :
                       files[ArtifactOrder[i]] = -1 \/ i = read_error}
    IN  IF failing = {} THEN Len(ArtifactOrder) + 1
        ELSE CHOOSE i \in failing : \A j \in failing : i <= j

\* save_models: an artifact is dumped when it is not None / not empty
SaveModelsFiles(a, files) ==
    [rating_model |-> IF a.rating_model # 0 THEN a.rating_model
                      ELSE files.rating_model,
     clustering_model |-> IF a.clustering_model # 0 THEN a.clustering_model
                          ELSE files.clustering_model,
     scaler |-> a.scaler,
     label_encoders |-> IF a.label_encoders # 0 THEN a.label_encoders
                        ELSE files.label_encoders]

\* a new process constructs its engine; the files stay
NewEngine ==
    /\ artifacts # NoArtifacts
    /\ artifacts' = NoArtifacts
    /\ engLast' = [op |-> "init", ret |-> TRUE]
    /\ UNCHANGED <<prefixFiles, modelFiles, runs, encCall, geoVars, optVars,
                   scoreVars, sysVars, callVars, apiVars>>

\* _train_ml_model, run by generate_ml_routes when there is no rating model:
\* the encoders are fitted first; the synthetic data raises on a catalog
\* that is too small; else the scaler, the rating model and the clustering
\* model are fitted and save_models writes them
TrainArtifacts(synthetic_raises) ==
    /\ artifacts.rating_model = 0
    /\ runs < MaxRuns
    /\ runs' = runs + 1
    /\ artifacts' =
           IF synthetic_raises
           THEN [artifacts EXCEPT !.label_encoders = runs + 1]
           ELSE [rating_model |-> runs + 1, clustering_model |-> runs + 1,
                 scaler |-> runs + 1, label_encoders |-> runs + 1]
    /\ modelFiles' = IF synthetic_raises THEN modelFiles
                     ELSE SaveModelsFiles(artifacts', modelFiles)
    /\ engLast' = [op |-> "train", ret |-> ~synthetic_raises]
    /\ UNCHANGED <<prefixFiles, encCall, geoVars, optVars, scoreVars, sysVars,
                   callVars, apiVars>>

\* salvar_modelos: the rating and clustering models when not None, the
\* scaler and the encoders always
SalvarModelos ==
    /\ prefixFiles' =
           [rating_model |-> IF artifacts.rating_model # 0
                             THEN artifacts.rating_model
                             ELSE prefixFiles.rating_model,
            clustering_model |-> IF artifacts.clustering_model # 0
                                 THEN artifacts.clustering_model
                                 ELSE prefixFiles.clustering_model,
            scaler |-> artifacts.scaler,
            label_encoders |-> artifacts.label_encoders]
    /\ prefixFiles' # prefixFiles
    /\ engLast' = [op |-> "salvar", ret |-> TRUE]
    /\ UNCHANGED <<artifacts, modelFiles, runs, encCall, geoVars, optVars,
                   scoreVars, sysVars, callVars, apiVars>>

\* carregar_modelos: the four loads assign one after the other; the first
\* load that raises ends the call with False
CarregarModelos(read_error) ==
    \E stop \in {FirstFailure(prefixFiles, read_error)} :
        /\ artifacts' =
               [name \in DOMAIN artifacts |->
                   IF ArtifactIndex(name) < stop THEN prefixFiles[name]
                   ELSE artifacts[name]]
        /\ engLast' = [op |-> "carregar", ret |-> stop > Len(ArtifactOrder)]
        /\ <<artifacts', engLast'>> # <<artifacts, engLast>>
        /\ UNCHANGED <<prefixFiles, modelFiles, runs, encCall, geoVars, optVars,
                       scoreVars, sysVars, callVars, apiVars>>

\* load_models: each file that exists is loaded, in order; a load that
\* raises ends the call, the exception is printed
LoadModelFiles(read_error) ==
    /\ artifacts' =
           [name \in DOMAIN artifacts |->
               IF ArtifactIndex(name) < read_error /\ modelFiles[name] # -1
               THEN modelFiles[name] ELSE artifacts[name]]
    /\ engLast' = [op |-> "load", ret |-> TRUE]
    /\ <<artifacts', engLast'>> # <<artifacts, engLast>>
    /\ UNCHANGED <<prefixFiles, modelFiles, runs, encCall, geoVars, optVars,
                   scoreVars, sysVars, callVars, apiVars>>

ArtInit == ArtifactsIdle

ArtNext ==
    \/ NewEngine
    \/ \E synthetic_raises \in BOOLEAN : TrainArtifacts(synthetic_raises)
    \/ SalvarModelos
    \/ \E read_error \in 1..(Len(ArtifactOrder) + 1) : CarregarModelos(read_error)
    \/ \E read_error \in 1..(Len(ArtifactOrder) + 1) : LoadModelFiles(read_error)

ArtSetup ==
    ArtInit /\ EncIdle /\ GeoIdle /\ OptIdle /\ ScoreIdle /\ SysIdle
        /\ CallsIdle /\ ApiIdle

SpecArt == ArtSetup /\ [][ArtNext]_vars

----------------------------------------------------------------------------
(* Properties of nearest_neighbor_route (SpecGeo)                          *)

AllPointsValid == \A i \in 1..Len(geoCoords) : ValidateCoordinates(geoCoords[i])

\* C5: for every list of n >= 0 valid points and every start index valid for
\* it, nearest_neighbor_route returns a permutation of 0..n-1: exactly n
\* indices, each in range, none repeated, the first being the start index.
C5_ReturnsPermutation ==
    (geoOut.done /\ AllPointsValid) =>
        /\ geoOut.ok
        /\ Len(geoOut.route) = Len(geoCoords)
        /\ Range(geoOut.route) = 0..(Len(geoCoords) - 1)
        /\ Len(geoCoords) > 0 => geoOut.route[1] = geoStart

----------------------------------------------------------------------------
(* Properties of generate_routes (Spec)                                    *)

\* the arguments of the last call, after the "or default" lines
LastMaxLocations == OrDefault(lastCall.args[1], DefaultMaxLocations)
LastNumRoutes == OrDefault(lastCall.args[2], DefaultNumRoutes)
LastMaxBudget == OrDefault(lastCall.args[3], DefaultMaxBudget)

SiteNames(route) == [i \in 1..Len(route.locais) |-> route.locais[i].nome]

\* C1: for a positive budget, every route returned has custo_total_aoa equal
\* to the sum of taxa_aoa of its sites and at most the requested max_budget,
\* and no candidate of the pool has a price sum above the budget.
C1_CostWithinBudget ==
    (lastCall.called /\ lastCall.args[3] > 0) =>
        /\ \A i \in 1..Len(lastCall.routes) :
              /\ lastCall.routes[i].custo_total_aoa
                     = SumSeq(Prices(lastCall.routes[i].locais))
              /\ lastCall.routes[i].custo_total_aoa <= lastCall.args[3]
        /\ \A i \in 1..Len(lastCall.pool) :
              SumSeq(Prices(lastCall.pool[i].locais)) <= lastCall.args[3]

\* C1 witness: of two clusters, the one costing 55000 was discarded for a
\* budget of 50000 and the one costing 23000 was returned
C1_Witness ==
    /\ lastCall.called
    /\ lastCall.args[3] = 50000
    /\ df.rows = <<SiteKissama, SiteKalandula, SiteIona, SiteChimalavera>>
    /\ df.cluster = <<0, 1, 0, 1>>
    /\ Len(lastCall.routes) = 1
    /\ lastCall.routes[1].custo_total_aoa = 23000

\* C2: every route returned has at least 2 and at most max_locations sites,
\* for every catalog, cluster assignment and max_locations >= 2, clusters
\* of a single site included.
C2_SizeWithinBounds ==
    (lastCall.called /\ LastMaxLocations >= 2) =>
        \A i \in 1..Len(lastCall.routes) :
            /\ Len(lastCall.routes[i].locais) >= 2
            /\ Len(lastCall.routes[i].locais) <= LastMaxLocations

\* structural validation of a pooled candidate
ValidCandidate(route) == ValidateRouteData(route.locais)

C7_EmptyResultNoError ==
    (lastCall.called /\ (df.rows = <<>> \/ lastCall.pool = <<>>)) =>
        /\ lastCall.routes = <<>>
        /\ ~lastCall.raised

\* C7 witness: a catalog of two sites costing 55000 together, asked for
\* with a budget of 50000: nothing survives, the empty list is returned
C7_Witness ==
    /\ lastCall.called
    /\ df.rows = <<SiteKissama, SiteIona>>
    /\ lastCall.args[3] = 50000
    /\ lastCall.pool = <<>>
    /\ lastCall.routes = <<>>
    /\ ~lastCall.raised

ScenarioA ==
    /\ lastCall.called
    /\ df.rows = <<SiteKissama, SiteKalandula, SiteIona>>
    /\ lastCall.args[1] = 3

\* C8: Scenario A.  For the three sites priced 25000, 15000 and 30000 and
\* max_locations 3, a budget of 50000 gives no route; a budget of 80000
\* gives exactly one route, holding the three sites in nearest-neighbour
\* order from index 0, with total cost 70000.
C8_ScenarioA ==
    ScenarioA =>
        /\ lastCall.args[3] = 50000 => lastCall.routes = <<>>
        /\ lastCall.args[3] = 80000 =>
              /\ Len(lastCall.routes) = 1
              /\ SiteNames(lastCall.routes[1]) = <<"Kissama", "Kalandula", "Iona">>
              /\ lastCall.routes[1].custo_total_aoa = 70000

\* C8 witness: the call with budget 80000 has returned its route
C8_Witness ==
    /\ ScenarioA
    /\ lastCall.args[3] = 80000
    /\ Len(lastCall.routes) = 1
    /\ lastCall.routes[1].num_locais = 3

\* C10: a call of generate_routes repeating the previous call's arguments
\* on the same catalog object, from the same state of the random source,
\* returns the same list of routes (sites, order and metrics).
C10_RepeatedCallSameRoutes ==
    lastCall.repeat => lastCall.routes = lastCall.before

\* C10 witness: the repeated call ran on the catalog object the first call
\* had written its cluster column to, over two clusters, one of them sampled
C10_Witness ==
    /\ lastCall.repeat
    /\ "cluster" \in df.columns
    /\ Cardinality(Range(df.cluster)) = 2
    /\ \E c \in Range(df.cluster) :
          Cardinality({i \in 1..Len(df.rows) : df.cluster[i] = c})
              > LastMaxLocations
    /\ Len(lastCall.routes) = 2

----------------------------------------------------------------------------
(* Properties of _calculate_route_scores (SpecScore)                       *)

\* C9 as stated: of two candidates with the same recorded distance and
\* cost, the one whose sites have the strictly larger mean fragility
\* (candA) gets the strictly larger recorded score, whatever their lengths.
C9_StrictForEveryLength ==
    scored # <<>> => scored[1].score > scored[2].score

\* C9: of two candidates with the same recorded distance and cost, the one
\* whose sites have the strictly larger mean fragility never gets the
\* smaller recorded score; its recorded score is strictly larger whenever
\* its recorded fragilidade_media is strictly larger, which is the case
\* whenever both routes hold at most 12 sites.
C9_ScoreMonotone ==
    scored # <<>> =>
        /\ scored[1].score >= scored[2].score
        /\ scored[1].fragilidade_media > scored[2].fragilidade_media
              => scored[1].score > scored[2].score
        /\ (candA.num_locais <= 12 /\ candB.num_locais <= 12)
              => scored[1].score > scored[2].score

\* C9 witness: the means 13/8 = 1.625 and 21/13 = 1.615... are both
\* recorded as 1.62, so the two scored routes carry the same score
C9_Witness ==
    /\ scored # <<>>
    /\ candA.num_locais = 8 /\ candA.soma_fragilidade = 13
    /\ candB.num_locais = 13 /\ candB.soma_fragilidade = 21
    /\ scored[1].fragilidade_media = 162
    /\ scored[1].score = scored[2].score

----------------------------------------------------------------------------
(* Properties of the system and of the personalized assembler (SpecSys)    *)

\* no site appears at two positions of the route
NoRepeatedSite(route) ==
    \A i, j \in 1..Len(route.locais) :
        i # j => route.locais[i].nome # route.locais[j].nome

\* C3: every site of every route returned by
\* generate_traditional_routes(max_fragility = F) has fragilidade <= F, and
\* so the route's fragilidade_media is <= F.
C3_FragilityWithinLimit ==
    (sysLast.kind = "traditional" /\ ~sysLast.raised) =>
        \A i \in 1..Len(sysLast.routes) :
            /\ \A j \in 1..Len(sysLast.routes[i].locais) :
                  sysLast.routes[i].locais[j].fragilidade
                      <= sysLast.args.max_fragility
            /\ sysLast.routes[i].fragilidade_media
                   <= 100 * sysLast.args.max_fragility

\* C4: with catalogs of pairwise distinct sites, no route kept by
\* generate_traditional_routes and no route returned by
\* gerar_rotas_personalizadas holds the same site twice.
C4_NoDuplicateSite ==
    /\ \A i \in 1..Len(recommended_routes) : NoRepeatedSite(recommended_routes[i])
    /\ \A i \in 1..Len(sysLast.routes) : NoRepeatedSite(sysLast.routes[i])

\* C4 witness: the system keeps a sampled route of several sites of the
\* merged catalog, and the assembler has just returned a route of several
\* sites
C4_Witness ==
    /\ \E i \in 1..Len(recommended_routes) : recommended_routes[i].num_locais >= 2
    /\ Len(procDf.rows) > 2
    /\ sysLast.kind = "ml"
    /\ \E i \in 1..Len(sysLast.routes) : sysLast.routes[i].num_locais >= 2

\* the profile is invalid in one of the ways the contract lists: age
\* outside [18, 100], budget <= 0, a preference outside [0, 1], a field missing
InvalidProfile(profile) ==
    \/ ~(ProfileFields \subseteq profile.campos)
    \/ profile.idade < 18 \/ profile.idade > 100
    \/ profile.orcamento_max <= 0
    \/ \E f \in {profile.preferencia_sustentabilidade,
                 profile.preferencia_aventura, profile.preferencia_cultura} :
          f < 0 \/ f > 10

\* C11: a personalized-route request with an invalid profile is rejected
\* with an error before any training or rating prediction starts, and the
\* step leaves the engine's models and the stored recommended routes as
\* they were.
C11_InvalidProfileRejected ==
    [][(sysLast'.kind = "generate_ml" /\ InvalidProfile(sysLast'.profile)) =>
           /\ sysLast'.raised
           /\ sysLast'.steps \cap {"train", "predict"} = {}
           /\ mlModel' = mlModel
           /\ recommended_routes' = recommended_routes]_vars

\* C11 witness: a request of a 10-year-old was refused by a system that
\* holds a catalog, stored routes and an engine with no rating model yet
C11_Witness ==
    /\ sysLast.kind = "generate_ml"
    /\ sysLast.profile.idade = 10
    /\ sysLast.raised
    /\ sysLast.steps = {"validate"}
    /\ ~sysDf.isNone
    /\ mlModel.loaded /\ ~mlModel.rating_model
    /\ recommended_routes # <<>>

\* C12: generate_personalized_routes on an engine with no trained rating
\* model (and no automatic training) fails with an error: it returns neither
\* an empty list nor routes.
C12_FailsWithoutRatingModel ==
    (sysLast.kind = "ml" /\ ~mlModel.rating_model) => sysLast.raised

\* some site passing the price filter has a province or ecosystem the
\* engine's encoders cannot transform
UnknownCategory(model, orcamento_max) ==
    \E i \in 1..Len(model.rows) :
        /\ 10 * model.rows[i].taxa_aoa <= 4 * orcamento_max
        /\ ~EncodersTransform(model.label_encoders, model.rows[i])

\* C13: when a site's province or ecosystem was not seen by the label
\* encoders, or no encoder is present, no error reaches the caller of
\* personalized route generation and the site is rated 3.0.
C13_UnknownCategoryNeutral ==
    (/\ sysLast.kind = "ml"
     /\ mlModel.loaded /\ mlModel.rating_model
     /\ mlModel.clustering_model = "fitted"
     /\ UnknownCategory(mlModel, sysLast.args.max_budget)) =>
        /\ ~sysLast.raised
        /\ \A i \in 1..Len(sysLast.routes) :
              \A j \in 1..Len(sysLast.routes[i].locais) :
                  ~EncodersTransform(
                       mlModel.label_encoders,
                       mlModel.rows[sysLast.routes[i].locais[j].local_id + 1])
                      => sysLast.routes[i].locais[j].rating_previsto = 3

\* the budget and the site limit a personalized call ran with
PersonalizedBudget ==
    IF sysLast.kind = "ml" THEN sysLast.args.max_budget
    ELSE OrDefault(sysLast.args.max_budget, sysLast.profile.orcamento_max)
PersonalizedMaxLocais ==
    IF sysLast.kind = "ml" THEN sysLast.args.max_locations
    ELSE OrDefault(sysLast.args.max_locations, DefaultMaxLocations)

\* C14: every personalized route is budget-feasible: each site costs at
\* most 40% of the budget, custo_total_aoa is the sum of the prices and at
\* most the budget, and the route holds between 1 and maxLocations sites;
\* when no site of the engine's catalog passes the 40% filter the call
\* returns the empty list and does not raise.
C14_BudgetFeasible ==
    (sysLast.kind \in {"ml", "generate_ml"}) =>
        /\ \A i \in 1..Len(sysLast.routes) :
              /\ \A j \in 1..Len(sysLast.routes[i].locais) :
                    10 * sysLast.routes[i].locais[j].taxa_aoa
                        <= 4 * PersonalizedBudget
              /\ sysLast.routes[i].custo_total_aoa
                     = SumSeq(Prices(sysLast.routes[i].locais))
              /\ sysLast.routes[i].custo_total_aoa <= PersonalizedBudget
              /\ sysLast.routes[i].num_locais = Len(sysLast.routes[i].locais)
              /\ sysLast.routes[i].num_locais >= 1
              /\ sysLast.routes[i].num_locais <= PersonalizedMaxLocais
        /\ (/\ sysLast.kind = "ml" /\ mlModel.loaded
            /\ \A i \in 1..Len(mlModel.rows) :
                  10 * mlModel.rows[i].taxa_aoa > 4 * PersonalizedBudget) =>
               (sysLast.routes = <<>> /\ ~sysLast.raised)

\* C14 witness: for a budget of 50000 the assembler returned a route of two
\* sites out of a six-site catalog in which two sites cost more than 20000
C14_Witness ==
    /\ sysLast.kind = "ml"
    /\ sysLast.args.max_budget = 50000
    /\ Len(mlModel.rows) = 6
    /\ mlModel.rating_model
    /\ \E i \in 1..Len(sysLast.routes) : sysLast.routes[i].num_locais = 2

----------------------------------------------------------------------------
(* Properties of sistema_recomendacao_colaborativo (SpecCollab)            *)

\* position of the first row of user u
FirstRowOf(users, u) == CHOOSE i \in 1..Len(users) :
    /\ users[i].user_id = u
    /\ \A j \in 1..(i - 1) : users[j].user_id # u

\* the other users fewer than NeighbourLimit others come before: those
\* with a strictly larger cosine to the target's features, and among equal
\* cosines the ones met earlier (cosines compared squared, cross-multiplied)
Neighbours(users, target) ==
    LET ids == {users[i].user_id : i \in 1..Len(users)} \cup {target}
    IN  CHOOSE nb \in
          {LET others == ids \ {target}
               cosineAtLeast(a, b) ==
                   Dot(f[target], f[a]) * Dot(f[target], f[a]) * Dot(f[b], f[b])
                     >= Dot(f[target], f[b]) * Dot(f[target], f[b]) * Dot(f[a], f[a])
               ahead(o) == {x \in others \ {o} :
                               \/ ~cosineAtLeast(o, x)
                               \/ /\ cosineAtLeast(x, o)
                                  /\ first[x] < first[o]}
           IN  {o \in others : Cardinality(ahead(o)) < NeighbourLimit} :
             f \in {[o \in ids |-> MeanFeatures(users, o)]},
             first \in {[o \in ids \ {target} |-> FirstRowOf(users, o)]}} : TRUE

\* C15: the recommendations are at most n, sorted by rating descending,
\* one per site, each carrying the highest rating a neighbour (one of the at
\* most 20 most similar other users, never the target) gave the site, each
\* rating at least 4.0, and no site is one the target user has rated.
C15_CollaborativeContract ==
    collabCall.called =>
        \E nb \in {Neighbours(collabCall.users, collabCall.user_id)} :
        LET out == collabCall.out
            users == collabCall.users
            seen == {users[i].local_id :
                        i \in {j \in 1..Len(users) :
                                  users[j].user_id = collabCall.user_id}}
        IN  /\ Len(out) <= collabCall.n
            /\ Cardinality(nb) <= NeighbourLimit
            /\ collabCall.user_id \notin nb
            /\ \A i \in 1..(Len(out) - 1) :
                  out[i].rating_previsto >= out[i + 1].rating_previsto
            /\ \A i, j \in 1..Len(out) :
                  out[i].local_id = out[j].local_id => i = j
            /\ \A i \in 1..Len(out) :
                  /\ out[i].rating_previsto >= MinRecommendedRating
                  /\ out[i].local_id \notin seen
                  /\ \E k \in 1..Len(users) :
                        /\ users[k].user_id \in nb
                        /\ users[k].local_id = out[i].local_id
                        /\ users[k].rating = out[i].rating_previsto
                  /\ \A k \in 1..Len(users) :
                        (users[k].user_id \in nb
                            /\ users[k].local_id = out[i].local_id)
                          => users[k].rating <= out[i].rating_previsto

\* more other users than the limit, a site rated by two neighbours with
\* different ratings, and a higher rating of a recommended site by a user
\* outside the neighbourhood
C15_Witness ==
    /\ collabCall.called
    /\ Len(collabCall.out) >= 1
    /\ \E nb \in {Neighbours(collabCall.users, collabCall.user_id)} :
       LET users == collabCall.users
       IN  /\ Cardinality({users[i].user_id : i \in 1..Len(users)}) - 1
                  > NeighbourLimit
           /\ \E i \in 1..Len(collabCall.out), k \in 1..Len(users) :
                 /\ users[k].user_id \notin nb
                 /\ users[k].user_id # collabCall.user_id
                 /\ users[k].local_id = collabCall.out[i].local_id
                 /\ users[k].rating > collabCall.out[i].rating_previsto
           /\ \E i \in 1..Len(collabCall.out), k \in 1..Len(users) :
                 /\ users[k].user_id \in nb
                 /\ users[k].local_id = collabCall.out[i].local_id
                 /\ users[k].rating >= MinRecommendedRating
                 /\ users[k].rating < collabCall.out[i].rating_previsto

----------------------------------------------------------------------------
(* Properties of the distance computations (SpecDist)                      *)

\* latitude in [-90, 90] and longitude in [-180, 180]
InRange(c) ==
    /\ -900000 <= c.lat /\ c.lat <= 900000
    /\ -1800000 <= c.lon /\ c.lon <= 1800000

\* the points a computation includes: the two arguments, every point of
\* the list for the matrix and the tour, the points of the route indices
\* for the route distance
PointsIncluded(call) ==
    IF call.kind = "route_distance"
    THEN {call.coords[call.route[i] + 1] : i \in 1..Len(call.route)}
    ELSE Range(call.coords)

\* C16: a distance, matrix, tour or route-distance computation fails when a
\* point it includes is out of range, and returns when every point is in
\* range.
C16_InvalidCoordinateFails ==
    distCall.kind # "none" =>
        (distCall.ok <=> \A c \in PointsIncluded(distCall) : InRange(c))

----------------------------------------------------------------------------
(* Properties of the HTTP service (SpecApi)                                *)

\* C17: what a client's export request delivered is the result of that
\* client's own most recent generate request, whatever the other client
\* asked in between.
C17_ExportsOwnRoutes ==
    \A c \in Clients :
        apiClient[c].exported =>
            /\ apiClient[c].generated
            /\ apiClient[c].content = apiClient[c].routes

----------------------------------------------------------------------------
(* Frame of generate_routes on the catalog it is given (Spec)              *)

\* C18: no call changes the catalog object: its rows, its columns and the
\* values of its columns are after the call what they were before.
C18_CatalogReadOnly == [][df' = df]_vars

----------------------------------------------------------------------------
(* The choice made at each step of nearest_neighbor_route (SpecGeo)        *)

\* the indices not yet in the route before its position k + 1 is chosen
UnvisitedAt(k) == (0..(Len(geoCoords) - 1)) \ {geoOut.route[j] : j \in 1..k}

\* distance from the point the route is at after k choices to point i
DistanceFrom(k, i) == Haversine(geoCoords[geoOut.route[k] + 1], geoCoords[i + 1])

\* C19: each index after the first is an unvisited point at minimal
\* distance from the current point, and among the unvisited points at that
\* minimal distance it is the one with the lowest index.
C19_NearestLowestIndex ==
    (geoOut.done /\ geoOut.ok /\ Len(geoCoords) >= 2) =>
        \A k \in 1..(Len(geoOut.route) - 1) :
            LET chosen == geoOut.route[k + 1]
            IN  /\ chosen \in UnvisitedAt(k)
                /\ \A i \in UnvisitedAt(k) :
                      /\ DistanceFrom(k, chosen) <= DistanceFrom(k, i)
                      /\ DistanceFrom(k, chosen) = DistanceFrom(k, i)
                            => chosen <= i

\* a step at which two unvisited points are at the minimal distance, and a
\* step at which the nearest point is not the lowest unvisited index
C19_Witness ==
    /\ geoOut.done /\ geoOut.ok /\ Len(geoCoords) >= 3
    /\ \E k \in 1..(Len(geoOut.route) - 1) :
          \E i \in UnvisitedAt(k) \ {geoOut.route[k + 1]} :
             DistanceFrom(k, i) = DistanceFrom(k, geoOut.route[k + 1])
    /\ \E k \in 1..(Len(geoOut.route) - 1) :
          \E i \in UnvisitedAt(k) : i < geoOut.route[k + 1]

----------------------------------------------------------------------------
(* Properties of _select_best_routes (SpecSel)                             *)

DuplicateSite(route) ==
    \E i, j \in 1..Len(route.locais) :
        i # j /\ route.locais[i].nome = route.locais[j].nome

MissingRequiredField(route) ==
    \E i \in 1..Len(route.locais) :
        ~({"nome", "provincia", "latitude", "longitude", "fragilidade",
           "taxa_aoa"} \subseteq route.locais[i].campos)

\* C20: no route returned has a site twice, a site without one of the six
\* required fields, or a negative total distance, whether the selection
\* ends normally or through its except branch.
C20_InvalidCandidatesDropped ==
    selCall.called =>
        \A i \in 1..Len(selCall.out) :
            /\ ~DuplicateSite(selCall.out[i])
            /\ ~MissingRequiredField(selCall.out[i])
            /\ selCall.out[i].distancia_total_km >= 0

----------------------------------------------------------------------------
(* Properties of gerar_rotas_personalizadas (SpecSys)                      *)

\* a direct call of gerar_rotas_personalizadas that returned
PersonalizedReturned == sysLast.kind = "ml" /\ ~sysLast.raised

\* C21: the assemblies of one request are independent, each starting with
\* no cluster represented: every route holds the sites the first one holds,
\* and when the first assembly gives a route there are num_routes routes.
C21_IndependentAssemblies ==
    (PersonalizedReturned /\ sysLast.routes # <<>>) =>
        /\ Len(sysLast.routes) = sysLast.args.num_routes
        /\ \A i \in 1..Len(sysLast.routes) :
              sysLast.routes[i].locais = sysLast.routes[1].locais

\* the sites the request considers, as local_id: priced at most 40% of the budget
ViableIds ==
    {i \in 0..(Len(mlModel.rows) - 1) :
        10 * mlModel.rows[i + 1].taxa_aoa <= 4 * sysLast.args.max_budget}

PredictedRating(local_id) ==
    IF mlModel.rating_model THEN mlModel.ratings[mlModel.rows[local_id + 1].nome]
    ELSE 3

\* site x is considered before site y: higher predicted rating first, the
\* catalog order among equal ratings
ConsideredBefore(x, y) ==
    \/ PredictedRating(x) > PredictedRating(y)
    \/ PredictedRating(x) = PredictedRating(y) /\ x < y

ClusterOf(local_id) == mlModel.clusters[mlModel.rows[local_id + 1].nome]

\* C22: in every route the sites stand in descending predicted-rating order;
\* no site was added while fewer than max_locais \div 2 sites were held and
\* its cluster was already in the route; every considered site that was
\* reached with at least max_locais \div 2 and fewer than max_locais sites
\* held and fitted the remaining budget is in the route; no route holds more
\* than max_locais sites.
C22_DiversificationRule ==
    PersonalizedReturned =>
        \A r \in 1..Len(sysLast.routes) :
            LET locais == sysLast.routes[r].locais
                ids == [i \in 1..Len(locais) |-> locais[i].local_id]
                max_locais == sysLast.args.max_locations
                held(x) == {i \in 1..Len(ids) : ConsideredBefore(ids[i], x)}
                spent(x) == SumSeq([i \in 1..Cardinality(held(x)) |->
                                       locais[i].taxa_aoa])
            IN  /\ Len(locais) <= max_locais
                /\ \A i, j \in 1..Len(ids) :
                      i < j => ConsideredBefore(ids[i], ids[j])
                /\ \A j \in 1..Len(ids) :
                      ~(/\ j - 1 < max_locais \div 2
                        /\ ClusterOf(ids[j]) \in {ClusterOf(ids[i]) : i \in 1..(j - 1)})
                /\ \A x \in ViableIds \ Range(ids) :
                      ~(/\ Cardinality(held(x)) >= max_locais \div 2
                        /\ Cardinality(held(x)) < max_locais
                        /\ spent(x) + mlModel.rows[x + 1].taxa_aoa
                              <= sysLast.args.max_budget)

\* a route in which a site was passed over for its cluster and a later site
\* of a cluster already in the route was added after the half was reached
C22_Witness ==
    /\ PersonalizedReturned
    /\ \E r \in 1..Len(sysLast.routes) :
          LET locais == sysLast.routes[r].locais
              ids == [i \in 1..Len(locais) |-> locais[i].local_id]
          IN  /\ \E x \in ViableIds \ Range(ids) :
                    /\ ConsideredBefore(x, ids[Len(ids)])
                    /\ \E i \in 1..Len(ids) :
                          /\ ConsideredBefore(ids[i], x)
                          /\ ClusterOf(ids[i]) = ClusterOf(x)
              /\ \E i, j \in 1..Len(ids) :
                    i < j /\ ClusterOf(ids[i]) = ClusterOf(ids[j])

C27_RecommendedIsLastReturned ==
    (sysLast.kind \in {"traditional", "generate_ml"} /\ ~sysLast.raised) =>
        recommended_routes = sysLast.routes

\* C26: the training pipeline does not raise on a non-empty catalog: a
\* valid request that had to train reaches the prediction, and the rating
\* and cluster training called on a loaded engine returns.
C26_TrainingCompletes ==
    /\ (sysLast.kind = "generate_ml" /\ "train" \in sysLast.steps
            /\ mlModel.rows # <<>>)
           => "predict" \in sysLast.steps
    /\ (sysLast.kind = "ml_train" /\ mlModel.rows # <<>>) => ~sysLast.raised

----------------------------------------------------------------------------
(* Lazy training in generate_ml_routes (SpecSys)                           *)

\* the step is a generate_ml_routes request that passed the data check and
\* the profile validation
ValidRequestStep ==
    /\ sysLast' # sysLast
    /\ sysLast'.kind = "generate_ml"
    /\ ~sysDf.isNone
    /\ ValidateUserProfile(sysLast'.profile)

----------------------------------------------------------------------------
(* Initialization of the service (SpecApi)                                 *)

\* C29: the global is bound only to a system whose data is loaded, so a
\* failed creation or load leaves it unset for the next request to try
\* again, and no request is handed a system without data.
C29_NeverUnloadedSystem ==
    /\ ~apiSystem.isNone => ~apiSystem.df.isNone
    /\ \A c \in Clients : apiClient[c].handed # "unloaded"

----------------------------------------------------------------------------
(* Derived features at load (SpecSys)                                      *)

\* C30: for a catalog that passes the content validation the derived
\* features pass validate_derived_features, and load_data returns.
C30_DerivedFeaturesValid ==
    (sysLast.kind = "load" /\ ValidateDataContent(procDf.rows)) =>
        /\ ValidateDerivedFeatures(procDf.rows)
        /\ ~sysLast.raised

----------------------------------------------------------------------------
(* Category codes in training and in prediction (SpecEnc)                  *)

\* C25: for every site whose province and ecosystem occur in the training
\* matrix, the codes prever_rating_usuario puts into the feature vector
\* are the codes these values had in the training matrix.
C25_SameCodesAsTraining ==
    encCall.called =>
        \A i \in encCall.visited :
            /\ LabelEncoderTransform(encCall.label_encoders.ecosistema,
                                     encCall.rows[i + 1].tipo_ecosistema)
                   = LabelEncoderTransform(encCall.trained.ecosistema,
                                           encCall.rows[i + 1].tipo_ecosistema)
            /\ LabelEncoderTransform(encCall.label_encoders.provincia,
                                     encCall.rows[i + 1].provincia)
                   = LabelEncoderTransform(encCall.trained.provincia,
                                           encCall.rows[i + 1].provincia)

----------------------------------------------------------------------------
(* The model artifacts across trainings, saves and loads (SpecArt)         *)

\* C28: after every operation, when the rating model is set the clustering
\* model and the encoders are set and were fitted by the same training; a
\* carregar_modelos call that returns False leaves the four artifacts as
\* they were.
C28_ArtifactsAllOrNothing ==
    [][/\ artifacts'.rating_model # 0 =>
             /\ artifacts'.clustering_model = artifacts'.rating_model
             /\ artifacts'.label_encoders = artifacts'.rating_model
       /\ (engLast'.op = "carregar" /\ ~engLast'.ret) => artifacts' = artifacts]_vars

====
